---- MODULE Spec2Model ----
(***************************************************************************)
(* bw-locale-generator: the locale-file merger (utils.rs), the Localizer   *)
(* (lib.rs) and the single-file extractor (generate_toml_from_one).        *)
(*                                                                         *)
(* Text is modelled as a sequence of lines, a line as a sequence of        *)
(* tokens.  A token is one character ("\t", " ", "\"", "\\", "[", ...) or  *)
(* an indivisible run of characters ("--", "L.", "L =", "if L then",       *)
(* "end", a word such as "bob").  A text is [lines, nl]: nl says whether   *)
(* the last line is terminated by LINE_ENDING.                             *)
(***************************************************************************)
EXTENDS Integers, Sequences, FiniteSets, TLC

\* ------------------------------------------------------------------------
\* Characters and strings
\* ------------------------------------------------------------------------

\* \w of the regexes: the word tokens of the model.
WordTokens == {"bob", "tom", "a", "b"}

IsSpace(t) == t \in {"\t", " "}

DigitTokens == {"1", "2"}

IsDigit(t) == t \in DigitTokens

IsWord(t) == t \in WordTokens \cup DigitTokens

Min(S) == CHOOSE x \in S : \A y \in S : x <= y

RECURSIVE trim_start(_)
trim_start(s) ==
    IF s # <<>> /\ IsSpace(Head(s)) THEN trim_start(Tail(s)) ELSE s

RECURSIVE trim_end(_)
trim_end(s) ==
    IF s # <<>> /\ IsSpace(s[Len(s)])
    THEN trim_end(SubSeq(s, 1, Len(s) - 1))
    ELSE s

\* str::trim
trim(s) == trim_end(trim_start(s))

\* str::contains
contains(s, pat) ==
    \E i \in 1..(Len(s) - Len(pat) + 1) : SubSeq(s, i, i + Len(pat) - 1) = pat

\* str::starts_with
starts_with(s, pat) ==
    Len(s) >= Len(pat) /\ SubSeq(s, 1, Len(pat)) = pat

\* First position >= i of s that holds no white space (Len(s)+1 if none): \s*
RECURSIVE SkipSpace(_, _)
SkipSpace(s, i) ==
    IF i <= Len(s) /\ IsSpace(s[i]) THEN SkipSpace(s, i + 1) ELSE i

\* First position >= i of s that holds no word token: \w*
RECURSIVE SkipWord(_, _)
SkipWord(s, i) ==
    IF i <= Len(s) /\ IsWord(s[i]) THEN SkipWord(s, i + 1) ELSE i

\* First position >= i of s that holds a quote no backslash precedes
\* (Len(s)+1 if none): (?<!\\)"
RECURSIVE ClosingQuote(_, _)
ClosingQuote(s, i) ==
    IF i > Len(s) \/ (s[i] = "\"" /\ s[i - 1] # "\\") THEN i
    ELSE ClosingQuote(s, i + 1)

\* LINE_ENDING is one line break: a text is its lines and whether the last
\* one is terminated.
Text(ls, terminated) == [lines |-> ls, nl |-> terminated /\ ls # <<>>]

EmptyText == Text(<<>>, FALSE)

\* ------------------------------------------------------------------------
\* LOCALE_ASSIGNMENT_REGEX   \s*(--)?\s*L\.(\w*)\s*=\s*"(.*?)(?<!\\)"(.*)
\* ------------------------------------------------------------------------

NoMatch ==
    [ok |-> FALSE, is_comment |-> FALSE, name |-> <<>>, value |-> <<>>,
     leftover |-> <<>>]

\* The match that starts at position i of the line, if there is one.  The
\* closing quote is the first quote after the opening one that no backslash
\* precedes.
MatchAt(s, i) ==
    LET p1 == SkipSpace(s, i)
        isc == p1 <= Len(s) /\ s[p1] = "--"
        p2 == SkipSpace(s, IF isc THEN p1 + 1 ELSE p1)
    IN  IF ~(p2 <= Len(s) /\ s[p2] = "L.") THEN NoMatch
        ELSE
    LET p3 == SkipWord(s, p2 + 1)
        p4 == SkipSpace(s, p3)
    IN  IF ~(p4 <= Len(s) /\ s[p4] = "=") THEN NoMatch
        ELSE
    LET p5 == SkipSpace(s, p4 + 1)
    IN  IF ~(p5 <= Len(s) /\ s[p5] = "\"") THEN NoMatch
        ELSE
    LET q == ClosingQuote(s, p5 + 1)
    IN  IF q > Len(s) THEN NoMatch
        ELSE [ok |-> TRUE, is_comment |-> isc,
              name |-> SubSeq(s, p2 + 1, p3 - 1),
              value |-> SubSeq(s, p5 + 1, q - 1),
              leftover |-> SubSeq(s, q + 1, Len(s))]

\* Regex::captures: the leftmost match anywhere in the line.
RECURSIVE FirstMatchFrom(_, _)
FirstMatchFrom(s, i) ==
    IF i > Len(s) THEN NoMatch
    ELSE LET m == MatchAt(s, i)
         IN  IF m.ok THEN m ELSE FirstMatchFrom(s, i + 1)

LocaleAssignmentCaptures(s) == FirstMatchFrom(s, 1)

\* ------------------------------------------------------------------------
\* Lines of a locale file
\* ------------------------------------------------------------------------

IfLThen == <<"if L then">>

EndLine == <<"end">>

\* format!("{}L.{} = \"{}\"", if is_valid { "\t" } else { "\t-- " }, name, translation)
FormatValueLine(name, translation, is_valid) ==
    (IF is_valid THEN <<"\t">> ELSE <<"\t", "--", " ">>)
        \o <<"L.">> \o name \o <<" ", "=", " ", "\"">> \o translation \o <<"\"">>

\* FormatReplacedLine when the text after the closing quote is dropped.
FormatReplacedLineNoLeftover(name, translation, leftover) ==
    <<"\t", "L.">> \o name \o <<" ", "=", " ", "\"">> \o translation \o <<"\"">>

\* format!("\tL.{name} = \"{translation}\"{leftover}")
FormatReplacedLine(name, translation, leftover) ==
    <<"\t", "L.">> \o name \o <<" ", "=", " ", "\"">> \o translation
        \o <<"\"">> \o leftover

\* ValueLines when the map is walked from its last entry to its first.
ValueLinesReversed(values) ==
    [i \in 1..Len(values) |->
        FormatValueLine(values[Len(values) + 1 - i].name,
                        values[Len(values) + 1 - i].translation,
                        values[Len(values) + 1 - i].is_valid)]

\* The value lines of a map, in the map's iteration order.
RECURSIVE ValueLines(_)
ValueLines(values) ==
    IF values = <<>> THEN <<>>
    ELSE <<FormatValueLine(Head(values).name, Head(values).translation,
                           Head(values).is_valid)>>
             \o ValueLines(Tail(values))

\* IndexMap: a sequence of entries with distinct names.
MapNames(m) == {m[i].name : i \in 1..Len(m)}

MapGet(m, name) == m[CHOOSE i \in 1..Len(m) : m[i].name = name]

\* IndexMap::shift_remove: the entry is removed, the order of the rest kept.
RECURSIVE shift_remove(_, _)
shift_remove(m, name) ==
    IF m = <<>> THEN <<>>
    ELSE IF Head(m).name = name THEN shift_remove(Tail(m), name)
    ELSE <<Head(m)>> \o shift_remove(Tail(m), name)

\* ------------------------------------------------------------------------
\* utils.rs: the header / if / end scanner, shared by discard_existing and
\* replace (State: Initial, FoundLocale, InsideIf, Done)
\* ------------------------------------------------------------------------

\* LocateStep when another locale's header after the header is not noticed.
LocateStepNoReset(state, line, header) ==
    IF state = "Initial"
    THEN IF contains(trim(line), header) THEN "FoundLocale" ELSE "Initial"
    ELSE IF trim(line) = IfLThen THEN "InsideIf"
    ELSE "FoundLocale"

\* The arms State::Initial and State::FoundLocale, the same in both scans.
LocateStep(state, line, header) ==
    IF state = "Initial"
    THEN IF contains(trim(line), header) THEN "FoundLocale" ELSE "Initial"
    ELSE IF trim(line) = IfLThen THEN "InsideIf"
    ELSE IF starts_with(trim(line), <<"L =">>) /\ trim(line) # header
         THEN "Initial"
    ELSE "FoundLocale"

\* DiscardInsideIf when the test of the comment marker is left out.
DiscardInsideIfAnyLine(acc, caps) ==
    IF caps.ok
    THEN [acc EXCEPT !.map = shift_remove(acc.map, caps.name)]
    ELSE acc

\* One line of discard_existing in State::InsideIf that is not `end`, caps
\* its captures.
DiscardInsideIf(acc, caps) ==
    IF caps.ok /\ ~caps.is_comment
    THEN [acc EXCEPT !.map = shift_remove(acc.map, caps.name)]
    ELSE acc

\* discard_existing from line i on: acc = [state, map].
RECURSIVE DiscardScan(_, _, _, _)
DiscardScan(lines, header, i, acc) ==
    IF i > Len(lines) THEN acc.map
    ELSE IF acc.state \in {"Initial", "FoundLocale"}
    THEN DiscardScan(lines, header, i + 1,
            [acc EXCEPT !.state = LocateStep(acc.state, lines[i], header)])
    ELSE IF trim(lines[i]) = EndLine THEN acc.map
    ELSE DiscardScan(lines, header, i + 1,
            DiscardInsideIf(acc, LocaleAssignmentCaptures(lines[i])))

\* discard_existing: the map without the names that a non-commented
\* assignment line of the header's block holds.
discard_existing(file, header, map) ==
    DiscardScan(file.lines, header, 1, [state |-> "Initial", map |-> map])

\* ReplaceAssignment when the comparison of the old and the new value is
\* left out.
ReplaceAssignmentAlways(lines, i, acc, caps) ==
    IF caps.ok /\ caps.name \in MapNames(acc.values)
    THEN LET e == MapGet(acc.values, caps.name)
             rest == shift_remove(acc.values, caps.name)
         IN  IF e.is_valid
             THEN [acc EXCEPT
                     !.values = rest,
                     !.scratch = acc.scratch
                         \o SubSeq(lines, acc.copy_from, i - 1)
                         \o <<FormatReplacedLine(e.name, e.translation,
                                                 caps.leftover)>>,
                     !.copy_from = i + 1,
                     !.touched = TRUE]
             ELSE [acc EXCEPT !.values = rest]
    ELSE acc

\* One line of replace in State::InsideIf that is not `end`, caps its
\* captures.
\* acc = [state, values, scratch, copy_from, touched]; scratch is the lines
\* pushed so far, copy_from the first source line not yet copied, touched
\* whether scratch is non-empty.
ReplaceAssignment(lines, i, acc, caps) ==
    IF caps.ok /\ caps.name \in MapNames(acc.values)
    THEN LET e == MapGet(acc.values, caps.name)
             rest == shift_remove(acc.values, caps.name)
         IN  IF e.is_valid /\ (caps.is_comment \/ caps.value # e.translation)
             THEN [acc EXCEPT
                     !.values = rest,
                     !.scratch = acc.scratch
                         \o SubSeq(lines, acc.copy_from, i - 1)
                         \o <<FormatReplacedLine(e.name, e.translation,
                                                 caps.leftover)>>,
                     !.copy_from = i + 1,
                     !.touched = TRUE]
             ELSE [acc EXCEPT !.values = rest]
    ELSE acc

\* One line of replace in State::InsideIf.
ReplaceInsideIf(lines, i, acc) ==
    IF trim(lines[i]) = EndLine
    THEN IF acc.values # <<>>
         THEN [acc EXCEPT
                 !.scratch = acc.scratch \o SubSeq(lines, acc.copy_from, i - 1)
                                \o ValueLines(acc.values),
                 !.copy_from = i,
                 !.touched = TRUE,
                 !.state = "Done"]
         ELSE [acc EXCEPT !.state = "Done"]
    ELSE ReplaceAssignment(lines, i, acc, LocaleAssignmentCaptures(lines[i]))

\* The loop of replace over src.lines(), left at the break or at the end.
RECURSIVE ReplaceScan(_, _, _, _)
ReplaceScan(lines, header, i, acc) ==
    IF i > Len(lines) \/ acc.state = "Done" THEN acc
    ELSE IF acc.state \in {"Initial", "FoundLocale"}
    THEN ReplaceScan(lines, header, i + 1,
            [acc EXCEPT !.state = LocateStep(acc.state, lines[i], header)])
    ELSE ReplaceScan(lines, header, i + 1, ReplaceInsideIf(lines, i, acc))

\* src.trim().is_empty()
IsBlankText(src) == \A i \in 1..Len(src.lines) : trim(src.lines[i]) = <<>>

\* NewBlock when no value line is written.
NewBlockWithoutValues(header, values) ==
    Text(<<<<"local", " ">> \o header, <<"if not L then return end">>, IfLThen, EndLine>>,
         TRUE)

\* The block written for a file that does not exist, and by replace for an
\* empty one.
NewBlock(header, values) ==
    Text(<<<<"local", " ">> \o header, <<"if not L then return end">>, IfLThen>>
            \o ValueLines(values) \o <<EndLine>>, TRUE)

\* AppendedBlock when the appended block has the shape of NewBlock and an
\* empty line always comes before it.
AppendedBlockLikeNew(src, header, acc) ==
    Text(acc.scratch \o SubSeq(src.lines, acc.copy_from, Len(src.lines))
            \o <<<<>>>>
            \o <<<<"local", " ">> \o header, <<"if not L then return end">>, IfLThen>>
            \o ValueLines(acc.values) \o <<EndLine>>,
         TRUE)

\* The block replace appends to a non-empty text whose scan did not end in
\* State::Done.  LINE_ENDING after the old bytes ends an unterminated last
\* line, or else leaves an empty line.
AppendedBlock(src, header, acc) ==
    Text(acc.scratch \o SubSeq(src.lines, acc.copy_from, Len(src.lines))
            \o (IF src.nl THEN <<<<>>>> ELSE <<>>)
            \o <<header, IfLThen>> \o ValueLines(acc.values) \o <<EndLine>>,
         TRUE)

\* What replace returns when its loop has left acc: [owned, text].
\* owned = FALSE is Cow::Borrowed(src).
ReplaceResult(src, header, acc) ==
    IF acc.state = "Done"
    THEN IF ~acc.touched
         THEN [owned |-> FALSE, text |-> src]
         ELSE [owned |-> TRUE,
               text |-> Text(acc.scratch
                           \o SubSeq(src.lines, acc.copy_from, Len(src.lines)),
                           src.nl)]
    ELSE IF IsBlankText(src)
    THEN [owned |-> TRUE, text |-> NewBlock(header, acc.values)]
    ELSE [owned |-> TRUE, text |-> AppendedBlock(src, header, acc)]

\* replace
replace(src, header, values) ==
    ReplaceResult(src, header,
        ReplaceScan(src.lines, header, 1,
            [state |-> "Initial", values |-> values, scratch |-> <<>>,
             copy_from |-> 1, touched |-> FALSE]))

\* ------------------------------------------------------------------------
\* lib.rs: from the heading text of a page to a stored translation
\* ------------------------------------------------------------------------

\* TITLE_REGEX \s+<.+?>$ : the start of its leftmost match, 0 if none.
TitleStart(s) ==
    LET starts == {i \in 1..Len(s) :
                      /\ IsSpace(s[i])
                      /\ SkipSpace(s, i) <= Len(s)
                      /\ s[SkipSpace(s, i)] = "<"
                      /\ Len(s) >= SkipSpace(s, i) + 2
                      /\ s[Len(s)] = ">"}
    IN  IF starts = {} THEN 0 ELSE Min(starts)

\* utils::replace_owning(translation, &TITLE_REGEX, "")
StripTitle(s) == IF TitleStart(s) = 0 THEN s ELSE SubSeq(s, 1, TitleStart(s) - 1)

\* translation.replace('\"', "\\\"")
RECURSIVE EscapeQuotes(_)
EscapeQuotes(s) ==
    IF s = <<>> THEN <<>>
    ELSE (IF Head(s) = "\"" THEN <<"\\", "\"">> ELSE <<Head(s)>>)
             \o EscapeQuotes(Tail(s))

\* Translate when a text in brackets is stored with its brackets.
TranslateKeepsBrackets(heading) ==
    LET t == EscapeQuotes(StripTitle(heading))
    IN  IF Len(t) >= 2 /\ t[1] = "[" /\ t[Len(t)] = "]"
        THEN [translation |-> t, is_valid |-> FALSE]
        ELSE [translation |-> t, is_valid |-> TRUE]

\* The Ok arm of the lookup: title stripped, quotes escaped, [..] unwrapped.
Translate(heading) ==
    LET t == EscapeQuotes(StripTitle(heading))
    IN  IF Len(t) >= 2 /\ t[1] = "[" /\ t[Len(t)] = "]"
        THEN [translation |-> SubSeq(t, 2, Len(t) - 1), is_valid |-> FALSE]
        ELSE [translation |-> t, is_valid |-> TRUE]

\* ------------------------------------------------------------------------
\* Files
\* ------------------------------------------------------------------------

\* A path's content: no file, or a file holding a text.
File(t) == [exists |-> TRUE, text |-> t]

NoFile == [exists |-> FALSE, text |-> EmptyText]

\* format!("L = BigWigs:NewBossLocale(\"{module_name}\", \"<code>\")")
Header(code) == <<"L =", code>>

\* write_to_dir on an existing file when no file operation fails, r what
\* replace returned.
CommitReplaced(to_file, r) ==
    IF r.owned
    THEN [file |-> File(r.text),
          ops |-> <<"create_tmp", "write_tmp", "sync_tmp", "rename">>]
    ELSE [file |-> to_file, ops |-> <<>>]

\* write_to_dir when an empty map is left aside.
write_to_dirSkipsEmpty(to_file, header, values) ==
    IF values = <<>> THEN [file |-> to_file, ops |-> <<>>]
    ELSE IF to_file.exists
    THEN CommitReplaced(to_file, replace(to_file.text, header, values))
    ELSE [file |-> File(NewBlock(header, values)),
          ops |-> <<"create", "write", "sync">>]

\* write_to_dir when no file operation fails: the target file afterwards
\* and the file operations performed, in order.
write_to_dir(to_file, header, values) ==
    IF to_file.exists
    THEN CommitReplaced(to_file, replace(to_file.text, header, values))
    ELSE [file |-> File(NewBlock(header, values)),
          ops |-> <<"create", "write", "sync">>]

PruneWorkSetKeepsAll(to_file, header, ids_map) == ids_map

\* The pruning of construct_language_data: the work set of one language.
PruneWorkSet(to_file, header, ids_map) ==
    IF to_file.exists
    THEN discard_existing(to_file.text, header, ids_map)
    ELSE ids_map

\* ------------------------------------------------------------------------
\* Input domains
\* ------------------------------------------------------------------------

\* Most assignment lines in the block of an existing file.
MaxBody == 2

\* Most entries of an input mapping.
MaxEntries == 2

Names == {<<"bob">>, <<"tom">>}

\* Heading texts a page can show.
Headings ==
    {<<"a">>, <<"b", "\"">>, <<"[", "b", "]">>, <<"a", "\\">>}

Translations == {Translate(h) : h \in Headings}

\* Sequences of at most n entries over S with distinct names.
DistinctSeqs(S, n) ==
    {m \in UNION {[1..k -> S] : k \in 0..n} :
        \A i, j \in 1..Len(m) : m[i].name = m[j].name => i = j}

\* Map<String, i64>: the entry of a name carries the id of the name.
IdsMaps == DistinctSeqs({[name |-> n] : n \in Names}, MaxEntries)

\* Map<String, (String, bool)>
ValueMaps ==
    DistinctSeqs({[name |-> n, translation |-> t.translation,
                   is_valid |-> t.is_valid] : n \in Names, t \in Translations},
                 MaxEntries)

\* Lines of an existing locale file.
LocalHeaderLine(code) == <<"local", " ">> \o Header(code)

GuardLine == <<"if not L then return end">>

BobLine == <<"\t", "L.", "bob", " ", "=", " ", "\"", "a", "\"">>

TomCommentedLine ==
    <<"\t", "--", " ", "L.", "tom", " ", "=", " ", "\"", "b", "\"", " ", "--", "a">>

TomLine == <<"L.", "tom", "=", "\"", "a", "\"">>

\* What an existing file holds before the assignment lines: nothing, the
\* header alone, the opening of the block, the header followed by another
\* locale's header, another locale's block followed by the opening.
Openings ==
    {<<>>,
     <<LocalHeaderLine("deDE")>>,
     <<LocalHeaderLine("deDE"), GuardLine, IfLThen>>,
     <<LocalHeaderLine("deDE"), Header("frFR"), IfLThen>>,
     <<LocalHeaderLine("frFR"), IfLThen, BobLine, EndLine, <<>>,
       Header("deDE"), IfLThen>>}

BodyLines == {BobLine, TomCommentedLine, TomLine}

\* What follows the assignment lines: nothing, the end of the block, the
\* end and another locale's block.
Closings ==
    {<<>>,
     <<EndLine>>,
     <<EndLine, <<" ">>, Header("frFR"), IfLThen, TomLine, EndLine>>}

ExistingTexts ==
    {Text(o \o b \o c, nl) :
        o \in Openings,
        b \in UNION {[1..k -> BodyLines] : k \in 0..MaxBody},
        c \in Closings,
        nl \in BOOLEAN}

\* ------------------------------------------------------------------------
\* State
\* ------------------------------------------------------------------------

VARIABLES
    mfile,      \* SpecMerge: the locale file of the language
    mphase,     \* SpecMerge: "start", "pruned", "written", "rewritten", "rescanned", "merged"
    mcall,      \* SpecMerge: the last call, its arguments and what it did
    cpc,        \* SpecCommit: where write_to_dir stands
    ctarget,    \* SpecCommit: the file at to_path
    ctmp,       \* SpecCommit: the file at tmp_path
    ctmp_dir,   \* SpecCommit: tmp_dir, "os_tmp" or "output_dir"
    cvalues,    \* SpecCommit: the argument values
    cold,       \* SpecCommit: the file at to_path when write_to_dir was called
    cnew,       \* SpecCommit: the text being written (replaced, or the new block)
    clocal,     \* SpecCommit: [synced, rename_tried, copy_ok]
    cres,       \* SpecCommit: "running", "ok", "err_to_path", "err_tmp_path", "interrupted"
    rfiles,     \* SpecRun: the output directory, language code -> <code>.lua
    rinput,     \* SpecRun: [ids_map, force_all, files]: the arguments of run and the files it found
    rdata,      \* SpecRun: Localizer.data, language code -> ids_map (absent languages: not in the domain)
    rmain,      \* SpecRun: where the main thread stands
    rtotal,     \* SpecRun: total
    rchan,      \* SpecRun: the bounded channel
    rsenders,   \* SpecRun: the Sender handles alive
    rrep,       \* SpecRun: the reporter thread, [pc, processed]
    rstderr,    \* SpecRun: the diagnostics written to stderr, in order
    rw,         \* SpecRun: the task of each language
    rfsyncs,    \* SpecRun: fsync calls on the output directory
    pprogram,   \* SpecParse: the extractor that runs
    pscript,    \* SpecParse: the lines of the script
    ppc,        \* SpecParse: "scan", "correlate", "result", "done"
    pline,      \* SpecParse: the next line to read
    pstate,     \* SpecParse: state
    pparsed_blocks,  \* SpecParse: parsed_blocks
    pmodule_name,    \* SpecParse: module_name, <<>> for None
    pids_map,   \* SpecParse: ids_map, comment -> id
    pvars_map,  \* SpecParse: vars_map, text -> variable
    ptables,    \* SpecParse: the two tables as the line scan left them
    pnext,      \* SpecParse: the next entry of vars_map to correlate
    pvar_to_id_map,  \* SpecParse: var_to_id_map, variable -> id
    pmissing_vars,   \* SpecParse: missing_vars
    pmissing_ids,    \* SpecParse: missing_ids
    fin,        \* SpecFetch: [heading, name, file]: the heading text of the page, the entry's name, the locale file
    fentry,     \* SpecFetch: the (translation, is_valid) of the Ok arm
    ffile,      \* SpecFetch: the locale file
    fpc,        \* SpecFetch: "fetched", "translated", "written"
    lids_map,   \* SpecLookup: the ids_map of the language
    lnext,      \* SpecLookup: the entry the iterator gives next; 0 before, Len + 2 after collect
    linflight,  \* SpecLookup: the entries whose request is sent and not answered
    lmap,       \* SpecLookup: the entries collected so far
    levents,    \* SpecLookup: the events sent so far
    tclock,     \* SpecTwoRuns: SystemTime::now() in seconds since the epoch
    trun,       \* SpecTwoRuns: invocation -> [pc, code, ts]: where its write_to_dir stands
    ttmp,       \* SpecTwoRuns: <<code, ts>> -> the file at that temporary path
    ttarget     \* SpecTwoRuns: code -> the file at the target path

mvars == <<mfile, mphase, mcall>>

cvars == <<cpc, ctarget, ctmp, ctmp_dir, cvalues, cold, cnew, clocal, cres>>

rvars ==
    <<rfiles, rinput, rdata, rmain, rtotal, rchan, rsenders, rrep, rstderr, rw,
      rfsyncs>>

pvars ==
    <<pprogram, pscript, ppc, pline, pstate, pparsed_blocks, pmodule_name, pids_map,
      pvars_map, ptables, pnext, pvar_to_id_map, pmissing_vars, pmissing_ids>>

fvars == <<fin, fentry, ffile, fpc>>

lvars == <<lids_map, lnext, linflight, lmap, levents>>

tvars == <<tclock, trun, ttmp, ttarget>>

vars == <<mvars, cvars, rvars, pvars, fvars, lvars, tvars>>

\* ------------------------------------------------------------------------
\* SpecMerge: the pure functions of utils.rs applied to one language's file
\* ------------------------------------------------------------------------

MHeader == Header("deDE")

NoCall ==
    [op |-> "none", values |-> <<>>, ids_map |-> <<>>, result |-> <<>>,
     before |-> NoFile, ops |-> <<>>]

MIdle ==
    /\ mfile = NoFile
    /\ mphase = "idle"
    /\ mcall = NoCall

MInit ==
    /\ mfile \in {NoFile} \cup {File(t) : t \in ExistingTexts}
    /\ mphase = "start"
    /\ mcall = NoCall

\* construct_language_data for the language, without full refresh.
MPrune ==
    /\ mphase = "start"
    /\ \E ids_map \in IdsMaps :
          mcall' = [NoCall EXCEPT !.op = "prune", !.ids_map = ids_map,
                       !.before = mfile,
                       !.result = PruneWorkSet(mfile, MHeader, ids_map)]
    /\ mphase' = "pruned"
    /\ UNCHANGED mfile
    /\ UNCHANGED <<cvars, rvars, pvars, fvars, lvars, tvars>>

\* The file and the record of a call of write_to_dir that gave w.
MCommitted(op, values, w) ==
    /\ mfile' = w.file
    /\ mcall' = [NoCall EXCEPT !.op = op, !.values = values, !.before = mfile,
                    !.ops = w.ops]

\* write_to_dir(values) on the file.
MWrite ==
    /\ mphase = "start"
    /\ \E values \in ValueMaps :
          MCommitted("write", values, write_to_dir(mfile, MHeader, values))
    /\ mphase' = "written"
    /\ UNCHANGED <<cvars, rvars, pvars, fvars, lvars, tvars>>

\* write_to_dir on the result, with the values of the call before.
MWriteAgain ==
    /\ mphase = "written"
    /\ MCommitted("write_again", mcall.values,
                  write_to_dir(mfile, MHeader, mcall.values))
    /\ mphase' = "rewritten"
    /\ UNCHANGED <<cvars, rvars, pvars, fvars, lvars, tvars>>

\* The pruning of a following run, its input mapping the names just written.
MRescan ==
    /\ mphase = "written"
    /\ LET ids_map == [i \in 1..Len(mcall.values) |-> [name |-> mcall.values[i].name]]
       IN  mcall' = [NoCall EXCEPT !.op = "rescan", !.values = mcall.values,
                        !.ids_map = ids_map, !.before = mcall.before,
                        !.result = PruneWorkSet(mfile, MHeader, ids_map)]
    /\ mphase' = "rescanned"
    /\ UNCHANGED mfile
    /\ UNCHANGED <<cvars, rvars, pvars, fvars, lvars, tvars>>

\* The maps the lookups of a work set can collect: an entry for each name
\* whose lookup succeeded, in the order of the work set, with any
\* translation.
CollectedMaps(work) ==
    {v \in ValueMaps :
        [i \in 1..Len(v) |-> [name |-> v[i].name]]
            = SelectSeq(work, LAMBDA e : e.name \in MapNames(v))}

\* The rest of a run without full refresh for the language: the lookups of
\* the pruned work set, then write_to_dir of what they collected.  A
\* language whose work set is empty is dropped and never written.
MWritePruned ==
    /\ mphase = "pruned"
    /\ mcall.result # <<>>
    /\ \E values \in CollectedMaps(mcall.result) :
          /\ mfile' = write_to_dir(mfile, MHeader, values).file
          /\ mcall' = [mcall EXCEPT !.op = "write_pruned", !.values = values,
                          !.ops = write_to_dir(mfile, MHeader, values).ops]
    /\ mphase' = "merged"
    /\ UNCHANGED <<cvars, rvars, pvars, fvars, lvars, tvars>>

MNext == MPrune \/ MWrite \/ MWriteAgain \/ MRescan \/ MWritePruned

\* ------------------------------------------------------------------------
\* SpecCommit: write_to_dir step by step, each file operation able to fail
\* and the process able to be interrupted between any two of them
\* ------------------------------------------------------------------------

\* The first k lines of a text that is being written.
Prefix(t, k) == IF k >= Len(t.lines) THEN t ELSE Text(SubSeq(t.lines, 1, k), TRUE)

\* Lines of a file that is being written which are on disk.
Written(f) == IF f.exists THEN Len(f.text.lines) ELSE 0

\* Localizer::get_tmp_dir: the OS's temporary directory when both metadata
\* calls succeed and give the same device, else the output directory.
get_tmp_dir(same_device) == IF same_device THEN "os_tmp" ELSE "output_dir"

NoLocal == [synced |-> FALSE, rename_tried |-> FALSE, copy_ok |-> FALSE]

CIdle ==
    /\ cpc = "idle"
    /\ ctarget = NoFile
    /\ ctmp = NoFile
    /\ ctmp_dir = "output_dir"
    /\ cvalues = <<>>
    /\ cold = NoFile
    /\ cnew = EmptyText
    /\ clocal = NoLocal
    /\ cres = "idle"

\* Existing files of the commit runs: every opening and closing, with no
\* assignment line or with bob's.
CommitTexts ==
    {Text(o \o b \o c, TRUE) :
        o \in Openings, b \in {<<>>, <<BobLine>>}, c \in Closings}

CInit ==
    /\ cpc = "open"
    /\ ctarget \in {NoFile} \cup {File(t) : t \in CommitTexts}
    /\ ctmp = NoFile
    /\ ctmp_dir \in {get_tmp_dir(d) : d \in BOOLEAN}
    /\ cvalues \in {m \in ValueMaps : Len(m) <= 1}
    /\ cold = ctarget
    /\ cnew = EmptyText
    /\ clocal = NoLocal
    /\ cres = "running"

\* return Err((path, e)) / the `?` on a failed call
CFail(path) ==
    /\ cpc' = "returned"
    /\ cres' = IF path = "to_path" THEN "err_to_path" ELSE "err_tmp_path"

\* Ok(())
CReturnOk ==
    /\ cpc' = "returned"
    /\ cres' = "ok"

\* File::open(&to_path): Ok, NotFound, or another error.
COpen ==
    /\ cpc = "open"
    /\ \/ ctarget.exists /\ cpc' = "read" /\ UNCHANGED cres
       \/ ~ctarget.exists /\ cpc' = "create" /\ UNCHANGED cres
       \/ CFail("to_path")
    /\ UNCHANGED <<ctarget, ctmp, ctmp_dir, cvalues, cold, cnew, clocal>>
    /\ UNCHANGED <<mvars, rvars, pvars, fvars, lvars, tvars>>

\* if let Cow::Owned(replaced) = replace(..): r is what replace returned.
CReplaced(r) ==
    IF r.owned
    THEN cnew' = r.text /\ cpc' = "create_tmp" /\ UNCHANGED cres
    ELSE UNCHANGED cnew /\ CReturnOk

\* read_to_string, then replace: quit early on Cow::Borrowed.
CRead ==
    /\ cpc = "read"
    /\ \/ CReplaced(replace(ctarget.text, MHeader, cvalues))
       \/ UNCHANGED cnew /\ CFail("to_path")
    /\ UNCHANGED <<ctarget, ctmp, ctmp_dir, cvalues, cold, clocal>>
    /\ UNCHANGED <<mvars, rvars, pvars, fvars, lvars, tvars>>

\* File::create(&tmp_path)
CCreateTmp ==
    /\ cpc = "create_tmp"
    /\ \/ ctmp' = File(EmptyText) /\ cpc' = "write_tmp" /\ UNCHANGED cres
       \/ UNCHANGED ctmp /\ CFail("tmp_path")
    /\ UNCHANGED <<ctarget, ctmp_dir, cvalues, cold, cnew, clocal>>
    /\ UNCHANGED <<mvars, rvars, pvars, fvars, lvars, tvars>>

\* tmp_file.write_all(replaced): more of the text reaches the file, or the
\* write fails.
CWriteTmp ==
    /\ cpc = "write_tmp"
    /\ \/ \E k \in (Written(ctmp) + 1)..Len(cnew.lines) :
            /\ ctmp' = File(Prefix(cnew, k))
            /\ cpc' = IF k = Len(cnew.lines) THEN "sync_tmp" ELSE "write_tmp"
            /\ UNCHANGED cres
       \/ UNCHANGED ctmp /\ CFail("tmp_path")
    /\ UNCHANGED <<ctarget, ctmp_dir, cvalues, cold, cnew, clocal>>
    /\ UNCHANGED <<mvars, rvars, pvars, fvars, lvars, tvars>>

\* tmp_file.sync_all()
CSyncTmp ==
    /\ cpc = "sync_tmp"
    /\ \/ /\ clocal' = [clocal EXCEPT !.synced = TRUE]
          /\ cpc' = "rename"
          /\ UNCHANGED cres
       \/ UNCHANGED clocal /\ CFail("tmp_path")
    /\ UNCHANGED <<ctarget, ctmp, ctmp_dir, cvalues, cold, cnew>>
    /\ UNCHANGED <<mvars, rvars, pvars, fvars, lvars, tvars>>

\* CRename when the new content is copied to the target and the temporary
\* file is left behind.
CRenameKeepsTmp ==
    /\ cpc = "rename"
    /\ clocal' = [clocal EXCEPT !.rename_tried = TRUE]
    /\ ctarget' = ctmp /\ UNCHANGED ctmp /\ CReturnOk
    /\ UNCHANGED <<ctmp_dir, cvalues, cold, cnew>>
    /\ UNCHANGED <<mvars, rvars, pvars, fvars, lvars, tvars>>

\* fs::rename(&tmp_path, &to_path): atomic, or it fails and nothing moved.
CRename ==
    /\ cpc = "rename"
    /\ clocal' = [clocal EXCEPT !.rename_tried = TRUE]
    /\ \/ ctarget' = ctmp /\ ctmp' = NoFile /\ CReturnOk
       \/ UNCHANGED <<ctarget, ctmp, cres>> /\ cpc' = "copy"
    /\ UNCHANGED <<ctmp_dir, cvalues, cold, cnew>>
    /\ UNCHANGED <<mvars, rvars, pvars, fvars, lvars, tvars>>

\* fs::copy(&tmp_path, &to_path): the target is truncated and filled piece
\* by piece; the copy can fail before or after any piece.
CCopy ==
    /\ cpc \in {"copy", "copying"}
    /\ \/ /\ cpc = "copy"
          /\ ctarget' = File(EmptyText)
          /\ cpc' = "copying"
          /\ UNCHANGED clocal
       \/ /\ cpc = "copying"
          /\ \E k \in (Written(ctarget) + 1)..Len(ctmp.text.lines) :
                /\ ctarget' = File(Prefix(ctmp.text, k))
                /\ IF k = Len(ctmp.text.lines)
                   THEN cpc' = "remove_tmp"
                        /\ clocal' = [clocal EXCEPT !.copy_ok = TRUE]
                   ELSE cpc' = "copying" /\ UNCHANGED clocal
       \/ /\ UNCHANGED <<ctarget, clocal>>
          /\ cpc' = "remove_tmp"
    /\ UNCHANGED <<ctmp, ctmp_dir, cvalues, cold, cnew, cres>>
    /\ UNCHANGED <<mvars, rvars, pvars, fvars, lvars, tvars>>

\* fs::remove_file(&tmp_path)?, then the copy's result.
CRemoveTmp ==
    /\ cpc = "remove_tmp"
    /\ \/ /\ ctmp' = NoFile
          /\ IF clocal.copy_ok THEN CReturnOk ELSE CFail("to_path")
       \/ UNCHANGED ctmp /\ CFail("tmp_path")
    /\ UNCHANGED <<ctarget, ctmp_dir, cvalues, cold, cnew, clocal>>
    /\ UNCHANGED <<mvars, rvars, pvars, fvars, lvars, tvars>>

\* File::create(&to_path) for a file that did not exist.
CCreate ==
    /\ cpc = "create"
    /\ \/ /\ ctarget' = File(EmptyText)
          /\ cnew' = NewBlock(MHeader, cvalues)
          /\ cpc' = "write"
          /\ UNCHANGED cres
       \/ UNCHANGED <<ctarget, cnew>> /\ CFail("to_path")
    /\ UNCHANGED <<ctmp, ctmp_dir, cvalues, cold, clocal>>
    /\ UNCHANGED <<mvars, rvars, pvars, fvars, lvars, tvars>>

\* The write_all calls on the BufWriter and its flush: more of the block
\* reaches the file, or a write fails.
CWrite ==
    /\ cpc = "write"
    /\ \/ \E k \in (Written(ctarget) + 1)..Len(cnew.lines) :
            /\ ctarget' = File(Prefix(cnew, k))
            /\ cpc' = IF k = Len(cnew.lines) THEN "sync" ELSE "write"
            /\ UNCHANGED cres
       \/ UNCHANGED ctarget /\ CFail("to_path")
    /\ UNCHANGED <<ctmp, ctmp_dir, cvalues, cold, cnew, clocal>>
    /\ UNCHANGED <<mvars, rvars, pvars, fvars, lvars, tvars>>

\* to_file.sync_all()
CSync ==
    /\ cpc = "sync"
    /\ \/ /\ clocal' = [clocal EXCEPT !.synced = TRUE]
          /\ CReturnOk
       \/ UNCHANGED clocal /\ CFail("to_path")
    /\ UNCHANGED <<ctarget, ctmp, ctmp_dir, cvalues, cold, cnew>>
    /\ UNCHANGED <<mvars, rvars, pvars, fvars, lvars, tvars>>

\* The process is interrupted: whatever is on disk stays.
CInterrupt ==
    /\ cpc \notin {"returned", "stopped"}
    /\ cpc' = "stopped"
    /\ cres' = "interrupted"
    /\ UNCHANGED <<ctarget, ctmp, ctmp_dir, cvalues, cold, cnew, clocal>>
    /\ UNCHANGED <<mvars, rvars, pvars, fvars, lvars, tvars>>

CNext ==
    \/ COpen \/ CRead \/ CCreateTmp \/ CWriteTmp \/ CSyncTmp \/ CRename
    \/ CCopy \/ CRemoveTmp \/ CCreate \/ CWrite \/ CSync \/ CInterrupt

\* ------------------------------------------------------------------------
\* SpecRun: Localizer::run, the main thread, the reporter thread and one
\* task per language
\* ------------------------------------------------------------------------

\* The language codes of the run.
Langs == {"deDE", "frFR"}

\* What a lookup of the run can give: a heading text, or an error.
RunHeadings == {<<"a">>}

LookupError == <<"error">>

\* Files the output directory can hold for a language when the run starts.
RunFiles(code) ==
    {NoFile,
     File(NewBlock(Header(code),
            <<[name |-> <<"bob">>, translation |-> <<"a">>, is_valid |-> TRUE]>>))}

RECURSIVE SumLen(_, _)
SumLen(f, S) ==
    IF S = {} THEN 0
    ELSE LET x == CHOOSE y \in S : TRUE IN Len(f[x]) + SumLen(f, S \ {x})

KeepsEveryLanguage(ids_map) == TRUE

\* The filter of construct_language_data: a language stays when its map is
\* not empty.
KeepsLanguage(ids_map) == ids_map # <<>>

\* LanguageWorkSet when the existing file is scanned in every mode.
LanguageWorkSetAlwaysPruned(to_file, header, ids_map, force_all) ==
    PruneWorkSet(to_file, header, ids_map)

\* The map of one language in construct_language_data: the clone of ids_map,
\* pruned by the existing file when output_dir is Some (no full refresh).
LanguageWorkSet(to_file, header, ids_map, force_all) ==
    IF force_all THEN ids_map ELSE PruneWorkSet(to_file, header, ids_map)

\* construct_language_data(initial_data, ids_map, output_dir): the map of
\* each language that stays.  output_dir is None with full refresh.
construct_language_data(files, ids_map, force_all) ==
    LET pruned == [l \in Langs |->
                     LanguageWorkSet(files[l], Header(l), ids_map, force_all)]
        kept == {l \in Langs : KeepsLanguage(pruned[l])}
    IN  [l \in kept |-> pruned[l]]

\* Events of the channel.
OkEvent(code, name) == [kind |-> "ok", language |-> code, name |-> name]

DataErrorEvent(code, name) == [kind |-> "data", language |-> code, name |-> name]

IoErrorEvent(code, path) == [kind |-> "io", language |-> code, name |-> <<path>>]

CountsEveryMessage(msg) == TRUE

CountsOkOnly(msg) == msg.kind = "ok"

WritesIoErrorsOnly(msg) == msg.kind = "io"

\* The reporter's match: what adds one to processed.
CountsAsProcessed(msg) == msg.kind # "io"

\* The reporter's match: what writes a diagnostic line.
WritesDiagnostic(msg) == msg.kind \in {"io", "data"}

\* What write_to_dir can leave and return: [file, err].  Ok(()) with the
\* committed file, or Err with the path it names: the temporary file's with
\* the target untouched, or the target's with the target untouched or
\* emptied by a create or a copy that got no further.
CommitOutcomesOf(to_file, w) ==
    {[file |-> w.file, err |-> "none"]}
        \cup {[file |-> to_file, err |-> "to_path"]}
        \cup (IF w.ops = <<>> THEN {}
              ELSE {[file |-> File(EmptyText), err |-> "to_path"]})
        \cup (IF to_file.exists /\ w.ops # <<>>
              THEN {[file |-> to_file, err |-> "tmp_path"]}
              ELSE {})

CommitOutcomes(to_file, header, values) ==
    CommitOutcomesOf(to_file, write_to_dir(to_file, header, values))

NoTask ==
    [pc |-> "idle", idx |-> 1, map |-> <<>>, pending |-> <<>>, lookups |-> 0,
     sent |-> <<>>, errors |-> <<>>, merges |-> 0, commit |-> ""]

RIdle ==
    /\ rfiles = [l \in Langs |-> NoFile]
    /\ rinput = [ids_map |-> <<>>, force_all |-> FALSE, files |-> rfiles]
    /\ rdata = <<>>
    /\ rmain = "idle"
    /\ rtotal = 0
    /\ rchan = <<>>
    /\ rsenders = 0
    /\ rrep = [pc |-> "none", processed |-> 0]
    /\ rstderr = <<>>
    /\ rw = [l \in Langs |-> NoTask]
    /\ rfsyncs = 0

RInit ==
    /\ rfiles \in {f \in [Langs -> UNION {RunFiles(l) : l \in Langs}] :
                      \A l \in Langs : f[l] \in RunFiles(l)}
    /\ rinput \in {[ids_map |-> m, force_all |-> fa, files |-> rfiles] :
                      m \in IdsMaps, fa \in BOOLEAN}
    /\ rdata = <<>>
    /\ rmain = "construct"
    /\ rtotal = 0
    /\ rchan = <<>>
    /\ rsenders = 0
    /\ rrep = [pc |-> "none", processed |-> 0]
    /\ rstderr = <<>>
    /\ rw = [l \in Langs |-> NoTask]
    /\ rfsyncs = 0

AlwaysHasWork(total) == TRUE

\* if total > 0
HasWork(total) == total > 0

\* Localizer::run up to the test of total: the data is built and counted;
\* with nothing to do the run says so and ends.
RConstruct ==
    /\ rmain = "construct"
    /\ LET data == construct_language_data(rfiles, rinput.ids_map, rinput.force_all)
           total == SumLen(data, DOMAIN data)
       IN  /\ rdata' = data
           /\ rtotal' = total
           /\ IF HasWork(total)
              THEN rmain' = "spawn" /\ UNCHANGED rstderr
              ELSE /\ rmain' = "done"
                   /\ rstderr' = Append(rstderr, [kind |-> "nothing", language |-> "",
                                              name |-> <<>>])
    /\ UNCHANGED <<rfiles, rinput, rchan, rsenders, rrep, rw, rfsyncs>>
    /\ UNCHANGED <<mvars, cvars, pvars, fvars, lvars, tvars>>

\* channel::bounded(total) and thread::spawn of the reporter.
RSpawn ==
    /\ rmain = "spawn"
    /\ rsenders' = 1
    /\ rrep' = [pc |-> "running", processed |-> 0]
    /\ rmain' = "par_iter"
    /\ UNCHANGED <<rfiles, rinput, rdata, rtotal, rchan, rstderr, rw, rfsyncs>>
    /\ UNCHANGED <<mvars, cvars, pvars, fvars, lvars, tvars>>

\* The task of a language starts: the client is built, tx is cloned for the
\* closure of the lookups.
WStart(l) ==
    /\ rmain = "par_iter"
    /\ l \in DOMAIN rdata
    /\ rw[l].pc = "idle"
    /\ rw' = [rw EXCEPT ![l].pc = IF rdata[l] = <<>> THEN "commit" ELSE "fetch"]
    /\ rsenders' = IF rdata[l] = <<>> THEN rsenders ELSE rsenders + 1
    /\ UNCHANGED <<rfiles, rinput, rdata, rmain, rtotal, rchan, rrep, rstderr,
                   rfsyncs>>
    /\ UNCHANGED <<mvars, cvars, pvars, fvars, lvars, tvars>>

\* client.get(...) for the next entry of the language: a heading text or an
\* error; the event to send is at hand.
WLookup(l) ==
    /\ rw[l].pc = "fetch"
    /\ \E result \in RunHeadings \cup {LookupError} :
          rw' = [rw EXCEPT ![l].pc = "send",
                           ![l].lookups = @ + 1,
                           ![l].pending = <<result>>]
    /\ UNCHANGED <<rfiles, rinput, rdata, rmain, rtotal, rchan, rsenders, rrep,
                   rstderr, rfsyncs>>
    /\ UNCHANGED <<mvars, cvars, pvars, fvars, lvars, tvars>>

\* Collected when a failed lookup leaves an entry with an empty text.
CollectedWithFailures(map, name, result) ==
    IF result = LookupError
    THEN Append(map, [name |-> name, translation |-> <<>>, is_valid |-> TRUE])
    ELSE Append(map, [name |-> name,
                      translation |-> Translate(result).translation,
                      is_valid |-> Translate(result).is_valid])

\* filter_map(..).collect(): Some((name, (translation, is_valid))) enters the
\* map, None does not.
Collected(map, name, result) ==
    IF result = LookupError THEN map
    ELSE Append(map, [name |-> name,
                      translation |-> Translate(result).translation,
                      is_valid |-> Translate(result).is_valid])

\* tx.send of the entry's event (it blocks while the channel is full), then
\* the entry enters the map, or not; after the last entry the closure and
\* its Sender are dropped.
WSend(l) ==
    /\ rw[l].pc = "send"
    /\ Len(rchan) < rtotal
    /\ LET name == rdata[l][rw[l].idx].name
           result == rw[l].pending[1]
           last == rw[l].idx = Len(rdata[l])
           msg == IF result = LookupError THEN DataErrorEvent(l, name)
                  ELSE OkEvent(l, name)
       IN  /\ rchan' = Append(rchan, msg)
           /\ rw' = [rw EXCEPT
                        ![l].pc = IF last THEN "commit" ELSE "fetch",
                        ![l].idx = @ + 1,
                        ![l].pending = <<>>,
                        ![l].sent = Append(@, name),
                        ![l].errors = IF result = LookupError THEN Append(@, msg)
                                      ELSE @,
                        ![l].map = Collected(@, name, result)]
           /\ rsenders' = IF last THEN rsenders - 1 ELSE rsenders
    /\ UNCHANGED <<rfiles, rinput, rdata, rmain, rtotal, rrep, rstderr, rfsyncs>>
    /\ UNCHANGED <<mvars, cvars, pvars, fvars, lvars, tvars>>

NeverCommitError(err) == FALSE

\* if let Err(e) = utils::write_to_dir(..)
IsCommitError(err) == err # "none"

\* utils::write_to_dir for the language.
WCommit(l) ==
    /\ rw[l].pc = "commit"
    /\ \E o \in CommitOutcomes(rfiles[l], Header(l), rw[l].map) :
          /\ rfiles' = [rfiles EXCEPT ![l] = o.file]
          /\ rw' = [rw EXCEPT
                       ![l].merges = @ + 1,
                       ![l].commit = o.err,
                       ![l].pc = IF IsCommitError(o.err) THEN "send_io" ELSE "done",
                       ![l].pending = IF IsCommitError(o.err) THEN <<o.err>> ELSE <<>>]
    /\ UNCHANGED <<rinput, rdata, rmain, rtotal, rchan, rsenders, rrep, rstderr,
                   rfsyncs>>
    /\ UNCHANGED <<mvars, cvars, pvars, fvars, lvars, tvars>>

\* tx.send(Err(ProcessingError::IoError(e)))
WSendIo(l) ==
    /\ rw[l].pc = "send_io"
    /\ Len(rchan) < rtotal
    /\ rchan' = Append(rchan, IoErrorEvent(l, rw[l].pending[1]))
    /\ rw' = [rw EXCEPT ![l].pc = "done", ![l].pending = <<>>,
                        ![l].errors = Append(@, IoErrorEvent(l, rw[l].pending[1]))]
    /\ UNCHANGED <<rfiles, rinput, rdata, rmain, rtotal, rsenders, rrep, rstderr,
                   rfsyncs>>
    /\ UNCHANGED <<mvars, cvars, pvars, fvars, lvars, tvars>>

\* The reporter: rx.recv() gives a message.
RRecv ==
    /\ rrep.pc = "running"
    /\ rchan # <<>>
    /\ LET msg == Head(rchan)
       IN  /\ rstderr' = IF WritesDiagnostic(msg) THEN Append(rstderr, msg)
                         ELSE rstderr
           /\ rrep' = [rrep EXCEPT
                          !.processed = IF CountsAsProcessed(msg) THEN @ + 1 ELSE @]
    /\ rchan' = Tail(rchan)
    /\ UNCHANGED <<rfiles, rinput, rdata, rmain, rtotal, rsenders, rw, rfsyncs>>
    /\ UNCHANGED <<mvars, cvars, pvars, fvars, lvars, tvars>>

\* RStop when the reporter stops as soon as it finds the channel empty.
RStopWhenEmpty ==
    /\ rrep.pc = "running"
    /\ rchan = <<>>
    /\ rrep' = [rrep EXCEPT !.pc = "stopped"]
    /\ UNCHANGED <<rfiles, rinput, rdata, rmain, rtotal, rchan, rsenders, rstderr,
                   rw, rfsyncs>>
    /\ UNCHANGED <<mvars, cvars, pvars, fvars, lvars, tvars>>

\* The reporter: rx.recv() gives Err, the channel is empty and every Sender
\* is dropped.
RStop ==
    /\ rrep.pc = "running"
    /\ rchan = <<>>
    /\ rsenders = 0
    /\ rrep' = [rrep EXCEPT !.pc = "stopped"]
    /\ UNCHANGED <<rfiles, rinput, rdata, rmain, rtotal, rchan, rsenders, rstderr,
                   rw, rfsyncs>>
    /\ UNCHANGED <<mvars, cvars, pvars, fvars, lvars, tvars>>

\* RDropTx when the main thread keeps its Sender.
RDropTxKept ==
    /\ rmain = "par_iter"
    /\ \A l \in DOMAIN rdata : rw[l].pc = "done"
    /\ rmain' = "join"
    /\ UNCHANGED <<rfiles, rinput, rdata, rtotal, rchan, rsenders, rrep, rstderr, rw,
                   rfsyncs>>
    /\ UNCHANGED <<mvars, cvars, pvars, fvars, lvars, tvars>>

\* for_each has returned: drop(tx).
RDropTx ==
    /\ rmain = "par_iter"
    /\ \A l \in DOMAIN rdata : rw[l].pc = "done"
    /\ rsenders' = rsenders - 1
    /\ rmain' = "join"
    /\ UNCHANGED <<rfiles, rinput, rdata, rtotal, rchan, rrep, rstderr, rw,
                   rfsyncs>>
    /\ UNCHANGED <<mvars, cvars, pvars, fvars, lvars, tvars>>

\* stderr_thread.join()
RJoin ==
    /\ rmain = "join"
    /\ rrep.pc = "stopped"
    /\ rmain' = "fsync"
    /\ UNCHANGED <<rfiles, rinput, rdata, rtotal, rchan, rsenders, rrep, rstderr,
                   rw, rfsyncs>>
    /\ UNCHANGED <<mvars, cvars, pvars, fvars, lvars, tvars>>

\* RFsync when the directory is synced until the call succeeds.
RFsyncRetries ==
    /\ rmain = "fsync"
    /\ rfsyncs' = rfsyncs + 1
    /\ \/ rmain' = "done" /\ UNCHANGED rstderr
       \/ /\ rfsyncs < 2
          /\ rmain' = "fsync"
          /\ rstderr' = Append(rstderr, [kind |-> "fsync", language |-> "",
                                         name |-> <<>>])
    /\ UNCHANGED <<rfiles, rinput, rdata, rtotal, rchan, rsenders, rrep, rw>>
    /\ UNCHANGED <<mvars, cvars, pvars, fvars, lvars, tvars>>

\* File::open(&output_dir).and_then(|dir| dir.sync_all()): it succeeds, or
\* it fails and the failure is written to stderr; the run ends either way.
RFsync ==
    /\ rmain = "fsync"
    /\ rfsyncs' = rfsyncs + 1
    /\ rmain' = "done"
    /\ \/ UNCHANGED rstderr
       \/ rstderr' = Append(rstderr, [kind |-> "fsync", language |-> "",
                                      name |-> <<>>])
    /\ UNCHANGED <<rfiles, rinput, rdata, rtotal, rchan, rsenders, rrep, rw>>
    /\ UNCHANGED <<mvars, cvars, pvars, fvars, lvars, tvars>>

RNext ==
    \/ RConstruct \/ RSpawn \/ RRecv \/ RStop \/ RDropTx \/ RJoin \/ RFsync
    \/ \E l \in Langs : WStart(l) \/ WLookup(l) \/ WSend(l) \/ WCommit(l) \/ WSendIo(l)

\* ------------------------------------------------------------------------
\* SpecParse: parse of generate_toml_from_one and of generate_yaml_from_one
\* ------------------------------------------------------------------------

\* Most identifier lines and most variable lines of a script.
MaxIdLines == 2

MaxVarLines == 2

IDS_START == <<"mod:RegisterEnableMob(">>

VARS_START == <<"if L then">>

\* First position >= i of s that holds no digit: \d*
RECURSIVE SkipDigit(_, _)
SkipDigit(s, i) ==
    IF i <= Len(s) /\ IsDigit(s[i]) THEN SkipDigit(s, i + 1) ELSE i

\* Last position >= i of s that holds a quote (0 if none)
RECURSIVE LastQuote(_, _)
LastQuote(s, i) ==
    IF i > Len(s) THEN 0
    ELSE LET later == LastQuote(s, i + 1)
         IN  IF later # 0 THEN later ELSE IF s[i] = "\"" THEN i ELSE 0

NoCaptures == [matched |-> FALSE, first |-> <<>>, second |-> <<>>]

\* ID_REGEX.captures(&line): ^\s*(\d+),?\s*--\s*(.+?)\n?$
IdCaptures(line) ==
    LET i1 == SkipSpace(line, 1)
        i2 == SkipDigit(line, i1)
        i3 == IF i2 <= Len(line) /\ line[i2] = "," THEN i2 + 1 ELSE i2
        i4 == SkipSpace(line, i3)
        i5 == SkipSpace(line, i4 + 1)
    IN  IF i2 = i1 \/ i4 > Len(line) THEN NoCaptures
        ELSE IF line[i4] # "--" \/ i4 = Len(line) THEN NoCaptures
        ELSE [matched |-> TRUE,
              first |-> SubSeq(line, i1, i2 - 1),
              second |-> IF i5 <= Len(line) THEN SubSeq(line, i5, Len(line))
                         ELSE <<line[Len(line)]>>]

\* VAR_REGEX.captures(&line): ^\s*L\.(\w+)\s*=\s*"(.+)"
VarCaptures(line) ==
    LET i1 == SkipSpace(line, 1)
        i2 == SkipWord(line, i1 + 1)
        i3 == SkipSpace(line, i2)
        i4 == SkipSpace(line, i3 + 1)
        q == LastQuote(line, i4 + 2)
    IN  IF i1 > Len(line) \/ i3 > Len(line) \/ i4 > Len(line) THEN NoCaptures
        ELSE IF line[i1] # "L." \/ i2 = i1 + 1 \/ line[i3] # "=" \/ line[i4] # "\""
        THEN NoCaptures
        ELSE IF q = 0 THEN NoCaptures
        ELSE [matched |-> TRUE,
              first |-> SubSeq(line, i1 + 1, i2 - 1),
              second |-> SubSeq(line, i4 + 1, q - 1)]

\* First position >= i of s that holds a quote (Len(s)+1 if none)
RECURSIVE NextQuote(_, _)
NextQuote(s, i) ==
    IF i > Len(s) \/ s[i] = "\"" THEN i ELSE NextQuote(s, i + 1)

\* The token at position i of s, "" past its end.
At(s, i) == IF i >= 1 /\ i <= Len(s) THEN s[i] ELSE ""

\* MODULE_DECL_REGEX.captures(&line):
\* ^\s*local\s*mod(?:,\s*CL)?\s*=\s*BigWigs:NewBoss\("(.*?)"
ModuleDeclCaptures(line) ==
    LET i1 == SkipSpace(line, 1)
        i2 == SkipSpace(line, i1 + 1)
        c == SkipSpace(line, i2 + 2)
        i3 == IF At(line, i2 + 1) = "," /\ At(line, c) = "CL" THEN c + 1 ELSE i2 + 1
        i4 == SkipSpace(line, i3)
        i5 == SkipSpace(line, i4 + 1)
        q == NextQuote(line, i5 + 2)
    IN  IF /\ At(line, i1) = "local"
           /\ At(line, i2) = "mod"
           /\ At(line, i4) = "="
           /\ At(line, i5) = "BigWigs:NewBoss("
           /\ At(line, i5 + 1) = "\""
           /\ q <= Len(line)
        THEN [matched |-> TRUE, first |-> SubSeq(line, i5 + 2, q - 1), second |-> <<>>]
        ELSE NoCaptures

\* IndexMap over [key, value] entries.
MapKeys(m) == {m[i].key : i \in 1..Len(m)}

MapValue(m, key) == m[CHOOSE i \in 1..Len(m) : m[i].key = key].value

MapInsertKeepsFirst(m, key, value) ==
    IF key \in MapKeys(m) THEN m ELSE Append(m, [key |-> key, value |-> value])

\* IndexMap::insert: a new key goes last, a known key keeps its place and
\* takes the new value.
MapInsert(m, key, value) ==
    IF key \in MapKeys(m)
    THEN [i \in 1..Len(m) |-> IF m[i].key = key THEN [key |-> key, value |-> value]
                              ELSE m[i]]
    ELSE Append(m, [key |-> key, value |-> value])

\* IndexMap::shift_remove on [key, value] entries.
MapShiftRemove(m, key) == SelectSeq(m, LAMBDA e : e.key # key)

\* IndexMap::remove, which is swap_remove: the last entry takes the place of
\* the removed one.
MapSwapRemove(m, key) ==
    IF key \notin MapKeys(m) THEN m
    ELSE LET i == CHOOSE j \in 1..Len(m) : m[j].key = key
             last == m[Len(m)]
         IN  [j \in 1..(Len(m) - 1) |-> IF j = i THEN last ELSE m[j]]

\* The two extractors of one file.
Programs == {"generate_toml_from_one", "generate_yaml_from_one"}

\* Lines of a script.
ModuleLine ==
    <<"local", " ", "mod", ",", " ", "CL", " ", "=", " ", "BigWigs:NewBoss(",
      "\"", "a", "\"", ")">>

IdLine(id, comment) == <<"\t", id, ",", " ", "--", " ">> \o comment

IdLines ==
    {IdLine("1", <<"a">>), IdLine("2", <<"b">>), IdLine("2", <<"a">>)}

VarLine(variable, text) == <<"\t", "L.", variable, " ", "=", " ", "\"">> \o text \o <<"\"">>

VarLines ==
    {VarLine("bob", <<"a">>), VarLine("tom", <<"b">>), VarLine("bob", <<"b">>),
     VarLine("tom", <<"a">>)}

CloseLine == <<")">>

SeqsUpTo(S, n) == UNION {[1..k -> S] : k \in 0..n}

\* Lines inside an identifier block that are no plain entry: an entry whose
\* comment holds a parenthesis, a Lua comment, an empty line.
IdNoise == {IdLine("1", <<"a", ")">>), <<"\t", "--", " ", "b">>, <<>>}

\* Lines inside a variable block that are no entry: a Lua comment, an empty
\* line, a line with text after `end`.
VarNoise == {<<"\t", "--", " ", "b">>, <<>>, <<"end", " ", "--", "a">>}

\* Scripts with such a line before or after an entry of each block; the
\* blocks end with an indented `)` and an indented `end`.
NoisyScripts ==
    {<<IDS_START>> \o ib \o <<<<"\t", ")">>, VARS_START>> \o vb \o <<<<"\t", "end">>>> :
        ib \in UNION {{<<x, i>>, <<i, x>>} : x \in IdNoise, i \in {IdLine("2", <<"a">>)}},
        vb \in UNION {{<<y, v>>, <<v, y>>} : y \in VarNoise, v \in {VarLine("bob", <<"a">>)}}}

\* Scripts that repeat the shape of the identifier block, the variable
\* block before, between or after the two.
RepeatedShapeScripts ==
    LET i1 == <<IDS_START, IdLine("1", <<"a">>), CloseLine>>
        i2 == {<<IDS_START, x, CloseLine>> : x \in {IdLine("2", <<"b">>), IdLine("2", <<"a">>)}}
        v == {<<VARS_START, x, EndLine>> : x \in {VarLine("bob", <<"a">>), VarLine("tom", <<"b">>)}}
    IN  {i1 \o b \o c : b \in i2, c \in v}
            \cup {i1 \o c \o b : b \in i2, c \in v}
            \cup {c \o i1 \o b : b \in i2, c \in v}

\* Scripts with a line that begins with `if L then` and goes on, in front
\* of the variable block or with no variable block.
LongOpeningScripts ==
    LET i1 == <<IDS_START, IdLine("1", <<"a">>), CloseLine>>
        long == {<<"if L then", " ", "a">>, <<"if L then", " ", "end">>}
    IN  {i1 \o <<x, VarLine("bob", <<"a">>), EndLine>> : x \in long}
            \cup {i1 \o <<x, VarLine("bob", <<"a">>), EndLine, VARS_START,
                          VarLine("tom", <<"a">>), EndLine>> : x \in long}

\* Scripts: a module line or none, then the identifier block and the
\* variable block in either order; or the identifier block alone.
Scripts ==
    LET idblocks == {<<IDS_START>> \o ids \o <<CloseLine>> :
                        ids \in SeqsUpTo(IdLines, MaxIdLines)}
        varblocks == {<<VARS_START>> \o vs \o <<EndLine>> :
                        vs \in SeqsUpTo(VarLines, MaxVarLines)}
    IN  {m \o i \o v : m \in {<<>>, <<ModuleLine>>}, i \in idblocks, v \in varblocks}
        \cup {v \o i : i \in idblocks, v \in varblocks}
        \cup idblocks
        \cup NoisyScripts
        \cup RepeatedShapeScripts
        \cup LongOpeningScripts

PIdle ==
    /\ pprogram = ""
    /\ pscript = <<>>
    /\ ppc = "idle"
    /\ pline = 1
    /\ pstate = "Neither"
    /\ pparsed_blocks = 0
    /\ pmodule_name = <<>>
    /\ pids_map = <<>>
    /\ pvars_map = <<>>
    /\ ptables = [ids |-> <<>>, vars |-> <<>>]
    /\ pnext = 1
    /\ pvar_to_id_map = <<>>
    /\ pmissing_vars = <<>>
    /\ pmissing_ids = <<>>

PInit ==
    /\ pprogram \in Programs
    /\ pscript \in Scripts
    /\ ppc = "scan"
    /\ pline = 1
    /\ pstate = "Neither"
    /\ pparsed_blocks = 0
    /\ pmodule_name = <<>>
    /\ pids_map = <<>>
    /\ pvars_map = <<>>
    /\ ptables = [ids |-> <<>>, vars |-> <<>>]
    /\ pnext = 1
    /\ pvar_to_id_map = <<>>
    /\ pmissing_vars = <<>>
    /\ pmissing_ids = <<>>

\* What the end of a block does: state = Neither, and either break (the
\* tables go to the correlation) or parsed_blocks += 1.
PEndBlock ==
    /\ pstate' = "Neither"
    /\ IF pparsed_blocks = 1
       THEN /\ ppc' = "correlate"
            /\ ptables' = [ids |-> pids_map', vars |-> pvars_map']
            /\ UNCHANGED <<pparsed_blocks, pline>>
       ELSE /\ pparsed_blocks' = pparsed_blocks + 1
            /\ pline' = pline + 1
            /\ UNCHANGED <<ppc, ptables>>

\* The None arm of ID_REGEX.captures with line.find(')').is_some()
EndsIds(line, caps) == ~caps.matched /\ contains(line, <<")">>)

\* The None arm of VAR_REGEX.captures with line.trim() == "end", and with
\* line == "end" in generate_yaml_from_one
EndsVars(program, line, caps) ==
    /\ ~caps.matched
    /\ IF program = "generate_yaml_from_one" THEN line = <<"end">>
       ELSE trim(line) = <<"end">>

\* A line read in state ParsingIds
PParsingIds ==
    /\ ppc = "scan" /\ pline <= Len(pscript) /\ pstate = "ParsingIds"
    /\ LET line == pscript[pline]
           caps == IdCaptures(line)
       IN  /\ pids_map' = IF caps.matched
                          THEN MapInsert(pids_map, trim(caps.second), caps.first)
                          ELSE pids_map
           /\ UNCHANGED <<pvars_map, pmodule_name>>
           /\ IF EndsIds(line, caps)
              THEN PEndBlock
              ELSE /\ pline' = pline + 1
                   /\ UNCHANGED <<pstate, pparsed_blocks, ppc, ptables>>
    /\ UNCHANGED <<pprogram, pscript, pnext, pvar_to_id_map, pmissing_vars, pmissing_ids>>
    /\ UNCHANGED <<mvars, cvars, rvars, fvars, lvars, tvars>>

\* A line read in state ParsingVars
PParsingVars ==
    /\ ppc = "scan" /\ pline <= Len(pscript) /\ pstate = "ParsingVars"
    /\ LET line == pscript[pline]
           caps == VarCaptures(line)
       IN  /\ pvars_map' = IF caps.matched
                           THEN MapInsert(pvars_map, caps.second, caps.first)
                           ELSE pvars_map
           /\ UNCHANGED <<pids_map, pmodule_name>>
           /\ IF EndsVars(pprogram, line, caps)
              THEN PEndBlock
              ELSE /\ pline' = pline + 1
                   /\ UNCHANGED <<pstate, pparsed_blocks, ppc, ptables>>
    /\ UNCHANGED <<pprogram, pscript, pnext, pvar_to_id_map, pmissing_vars, pmissing_ids>>
    /\ UNCHANGED <<mvars, cvars, rvars, fvars, lvars, tvars>>

\* A line read in state Neither
PNeither ==
    /\ ppc = "scan" /\ pline <= Len(pscript) /\ pstate = "Neither"
    /\ LET line == pscript[pline]
           caps == ModuleDeclCaptures(line)
       IN  /\ pstate' = IF starts_with(line, IDS_START) THEN "ParsingIds"
                        ELSE IF starts_with(line, VARS_START) THEN "ParsingVars"
                        ELSE pstate
           /\ pmodule_name' =
                 IF /\ ~starts_with(line, IDS_START)
                    /\ ~starts_with(line, VARS_START)
                    /\ pprogram = "generate_toml_from_one"
                    /\ caps.matched
                 THEN <<caps.first>>
                 ELSE pmodule_name
    /\ pline' = pline + 1
    /\ UNCHANGED <<pprogram, pscript, ppc, pparsed_blocks, pids_map, pvars_map, ptables,
                   pnext, pvar_to_id_map, pmissing_vars, pmissing_ids>>
    /\ UNCHANGED <<mvars, cvars, rvars, fvars, lvars, tvars>>

\* read_line returns 0: the end of the script.
PEndOfFile ==
    /\ ppc = "scan" /\ pline > Len(pscript)
    /\ ppc' = "correlate"
    /\ ptables' = [ids |-> pids_map, vars |-> pvars_map]
    /\ UNCHANGED <<pprogram, pscript, pline, pstate, pparsed_blocks, pmodule_name, pids_map,
                   pvars_map, pnext, pvar_to_id_map, pmissing_vars, pmissing_ids>>
    /\ UNCHANGED <<mvars, cvars, rvars, fvars, lvars, tvars>>

\* One turn of the loop over vars_map.
PCorrelate ==
    /\ ppc = "correlate" /\ pnext <= Len(pvars_map)
    /\ LET value == pvars_map[pnext].key
           variable == pvars_map[pnext].value
       IN  IF value \in MapKeys(pids_map)
           THEN /\ pids_map' = IF pprogram = "generate_yaml_from_one"
                                 THEN MapSwapRemove(pids_map, value)
                                 ELSE MapShiftRemove(pids_map, value)
                /\ pvar_to_id_map' =
                      MapInsert(pvar_to_id_map, variable, MapValue(pids_map, value))
                /\ UNCHANGED pmissing_vars
           ELSE /\ pmissing_vars' = Append(pmissing_vars, <<variable, value>>)
                /\ UNCHANGED <<pids_map, pvar_to_id_map>>
    /\ pnext' = pnext + 1
    /\ UNCHANGED <<pprogram, pscript, ppc, pline, pstate, pparsed_blocks, pmodule_name,
                   pvars_map, ptables, pmissing_ids>>
    /\ UNCHANGED <<mvars, cvars, rvars, fvars, lvars, tvars>>

\* missing_ids and the ParseResult
PResult ==
    /\ ppc = "correlate" /\ pnext > Len(pvars_map)
    /\ pmissing_ids' = [i \in 1..Len(pids_map) |-> <<pids_map[i].value, pids_map[i].key>>]
    /\ ppc' = "done"
    /\ UNCHANGED <<pprogram, pscript, pline, pstate, pparsed_blocks, pmodule_name, pids_map,
                   pvars_map, ptables, pnext, pvar_to_id_map, pmissing_vars>>
    /\ UNCHANGED <<mvars, cvars, rvars, fvars, lvars, tvars>>

PNext ==
    \/ PParsingIds \/ PParsingVars \/ PNeither \/ PEndOfFile \/ PCorrelate
    \/ PResult

\* ------------------------------------------------------------------------
\* SpecFetch: the Ok arm of one lookup, and write_to_dir of its entry
\* ------------------------------------------------------------------------

MaxHeading == 3

HeadingTokens == {"a", "[", "]", " ", "<", ">", "\""}

\* Heading texts: every short text over the tokens, and bracketed and plain
\* names followed by a title.
FetchHeadings ==
    SeqsUpTo(HeadingTokens, MaxHeading)
        \cup {<<"[", "a", "]", " ", "<", "a", ">">>,
              <<"a", " ", " ", "<", "[", "a", "]", ">">>,
              <<"[", "a", "\"", "]">>}

\* The locale file of the language: none, an empty block, a block with
\* bob's line, another locale's block only.
FetchFiles ==
    {NoFile,
     File(Text(<<LocalHeaderLine("deDE"), GuardLine, IfLThen, EndLine>>, TRUE)),
     File(Text(<<LocalHeaderLine("deDE"), GuardLine, IfLThen, BobLine, EndLine>>, TRUE)),
     File(Text(<<LocalHeaderLine("frFR"), GuardLine, IfLThen, BobLine, EndLine>>, TRUE))}

NoEntry == [translation |-> <<>>, is_valid |-> TRUE]

FIdle ==
    /\ fin = [heading |-> <<>>, name |-> <<>>, file |-> NoFile]
    /\ fentry = NoEntry
    /\ ffile = NoFile
    /\ fpc = "idle"

\* The lookup returned Ok(node.text()).
FInit ==
    /\ fin \in [heading : FetchHeadings, name : Names, file : FetchFiles]
    /\ fentry = NoEntry
    /\ ffile = fin.file
    /\ fpc = "fetched"

\* The Ok arm: the (translation, is_valid) of the heading text.
FTranslate ==
    /\ fpc = "fetched"
    /\ fentry' = Translate(fin.heading)
    /\ fpc' = "translated"
    /\ UNCHANGED <<fin, ffile>>
    /\ UNCHANGED <<mvars, cvars, rvars, pvars, lvars, tvars>>

\* The file after a call of write_to_dir that gave w.
FCommitted(w) == ffile' = w.file

\* write_to_dir with the map that holds the entry.
FWrite ==
    /\ fpc = "translated"
    /\ FCommitted(write_to_dir(ffile, Header("deDE"),
                    <<[name |-> fin.name, translation |-> fentry.translation,
                       is_valid |-> fentry.is_valid]>>))
    /\ fpc' = "written"
    /\ UNCHANGED <<fin, fentry>>
    /\ UNCHANGED <<mvars, cvars, rvars, pvars, lvars, tvars>>

FNext == FTranslate \/ FWrite

\* ------------------------------------------------------------------------
\* SpecLookup: the lookups of one language, request and answer apart
\* ------------------------------------------------------------------------

LIdle ==
    /\ lids_map = <<>>
    /\ lnext = 0
    /\ linflight = {}
    /\ lmap = <<>>
    /\ levents = <<>>

\* language.ids_map.into_iter(): the iterator stands before the first entry.
LInit ==
    /\ lids_map \in IdsMaps
    /\ lnext = 1
    /\ linflight = {}
    /\ lmap = <<>>
    /\ levents = <<>>

\* collect() pulls the next entry and the closure sends its request:
\* client.get blocks the closure, and collect() pulls no entry while the
\* closure runs.
LRequest ==
    /\ lnext \in 1..Len(lids_map)
    /\ linflight = {}
    /\ linflight' = {lnext}
    /\ UNCHANGED <<lids_map, lnext, lmap, levents>>
    /\ UNCHANGED <<mvars, cvars, rvars, pvars, fvars, tvars>>

\* The answer of the request in flight: the event is sent, the entry enters
\* the map or not, and the closure returns.
LResponse ==
    /\ linflight # {}
    /\ \E i \in linflight, result \in Headings \cup {LookupError} :
          /\ levents' = Append(levents,
                           IF result = LookupError
                           THEN DataErrorEvent("deDE", lids_map[i].name)
                           ELSE OkEvent("deDE", lids_map[i].name))
          /\ lmap' = Collected(lmap, lids_map[i].name, result)
          /\ linflight' = linflight \ {i}
    /\ lnext' = lnext + 1
    /\ UNCHANGED lids_map
    /\ UNCHANGED <<mvars, cvars, rvars, pvars, fvars, tvars>>

\* The iterator is exhausted: collect() returns the map.
LCollect ==
    /\ lnext = Len(lids_map) + 1
    /\ linflight = {}
    /\ lnext' = Len(lids_map) + 2
    /\ UNCHANGED <<lids_map, linflight, lmap, levents>>
    /\ UNCHANGED <<mvars, cvars, rvars, pvars, fvars, tvars>>

LNext == LRequest \/ LResponse \/ LCollect

\* ------------------------------------------------------------------------
\* SpecTwoRuns: write_to_dir of two invocations on one output directory
\* and one tmp_dir, each on an existing file that its merge changes
\* ------------------------------------------------------------------------

MaxClock == 1

Runs == {1, 2}

\* tmp_dir.join(format!("{language_code}-{unix_ts}.lua.tmp")): the path is
\* the pair of the code and the second.
TmpPath(code, unix_ts) == <<code, unix_ts>>

TmpPaths == {TmpPath(code, ts) : code \in Langs, ts \in 0..MaxClock}

\* The content of a file: the invocations whose text was written to it
\* since it was created or truncated, in the order of the writes.
Missing == [exists |-> FALSE, writes |-> <<>>]

Created == [exists |-> TRUE, writes |-> <<>>]

TIdle ==
    /\ tclock = 0
    /\ trun = [p \in Runs |-> [pc |-> "idle", code |-> "deDE", ts |-> 0]]
    /\ ttmp = [path \in TmpPaths |-> Missing]
    /\ ttarget = [code \in Langs |-> Created]

\* Both invocations have read the target and replace returned Cow::Owned.
TInit ==
    /\ tclock = 0
    /\ trun \in [Runs -> [pc : {"now"}, code : Langs, ts : {0}]]
    /\ ttmp = [path \in TmpPaths |-> Missing]
    /\ ttarget = [code \in Langs |-> Created]

\* A second passes.
TTick ==
    /\ tclock < MaxClock
    /\ tclock' = tclock + 1
    /\ UNCHANGED <<trun, ttmp, ttarget>>
    /\ UNCHANGED <<mvars, cvars, rvars, pvars, fvars, lvars>>

\* SystemTime::now().duration_since(UNIX_EPOCH).as_secs() and tmp_path
TNow(p) ==
    /\ trun[p].pc = "now"
    /\ trun' = [trun EXCEPT ![p].ts = tclock, ![p].pc = "create_tmp"]
    /\ UNCHANGED <<tclock, ttmp, ttarget>>
    /\ UNCHANGED <<mvars, cvars, rvars, pvars, fvars, lvars>>

\* File::create(&tmp_path): the file is created, or truncated when it is
\* there.
TCreateTmp(p) ==
    /\ trun[p].pc = "create_tmp"
    /\ ttmp' = [ttmp EXCEPT ![TmpPath(trun[p].code, trun[p].ts)] = Created]
    /\ trun' = [trun EXCEPT ![p].pc = "write_tmp"]
    /\ UNCHANGED <<tclock, ttarget>>
    /\ UNCHANGED <<mvars, cvars, rvars, pvars, fvars, lvars>>

\* tmp_file.write_all(replaced) and sync_all(): the text goes to the file
\* the handle is open on; when the other invocation has renamed that file
\* it is the target by now.
TWriteTmp(p) ==
    /\ trun[p].pc = "write_tmp"
    /\ IF ttmp[TmpPath(trun[p].code, trun[p].ts)].exists
       THEN /\ ttmp' = [ttmp EXCEPT ![TmpPath(trun[p].code, trun[p].ts)].writes =
                           Append(@, p)]
            /\ UNCHANGED ttarget
       ELSE /\ ttarget' = [ttarget EXCEPT ![trun[p].code].writes = Append(@, p)]
            /\ UNCHANGED ttmp
    /\ trun' = [trun EXCEPT ![p].pc = "rename"]
    /\ UNCHANGED tclock
    /\ UNCHANGED <<mvars, cvars, rvars, pvars, fvars, lvars>>

\* fs::rename(&tmp_path, &to_path): the file at tmp_path becomes the
\* target; with no file at tmp_path the rename, the copy and the removal
\* fail and write_to_dir returns Err.
TRename(p) ==
    /\ trun[p].pc = "rename"
    /\ IF ttmp[TmpPath(trun[p].code, trun[p].ts)].exists
       THEN /\ ttarget' = [ttarget EXCEPT ![trun[p].code] =
                              ttmp[TmpPath(trun[p].code, trun[p].ts)]]
            /\ ttmp' = [ttmp EXCEPT ![TmpPath(trun[p].code, trun[p].ts)] = Missing]
            /\ trun' = [trun EXCEPT ![p].pc = "ok"]
       ELSE /\ trun' = [trun EXCEPT ![p].pc = "err"]
            /\ UNCHANGED <<ttmp, ttarget>>
    /\ UNCHANGED tclock
    /\ UNCHANGED <<mvars, cvars, rvars, pvars, fvars, lvars>>

TNext ==
    \/ TTick
    \/ \E p \in Runs : TNow(p)
    \/ \E p \in Runs : TCreateTmp(p)
    \/ \E p \in Runs : TWriteTmp(p)
    \/ \E p \in Runs : TRename(p)

\* ------------------------------------------------------------------------
\* Specifications
\* ------------------------------------------------------------------------

MergeInit == MInit /\ CIdle /\ RIdle /\ PIdle /\ FIdle /\ LIdle /\ TIdle

SpecMerge == MergeInit /\ [][MNext]_vars

CommitInit == CInit /\ MIdle /\ RIdle /\ PIdle /\ FIdle /\ LIdle /\ TIdle

SpecCommit == CommitInit /\ [][CNext]_vars

RunInit == RInit /\ MIdle /\ CIdle /\ PIdle /\ FIdle /\ LIdle /\ TIdle

SpecRun == RunInit /\ [][RNext]_vars

\* Most entries of the input mapping in the runs checked for termination.
MaxFairEntries == 1

\* A run into an empty output directory with a short input mapping.
RFairInit ==
    /\ RInit
    /\ Len(rinput.ids_map) <= MaxFairEntries
    /\ \A l \in Langs : rfiles[l] = NoFile

RunFairInit == RFairInit /\ MIdle /\ CIdle /\ PIdle /\ FIdle /\ LIdle /\ TIdle

\* Every thread that can take a step takes one in the end: the main thread,
\* the reporter's thread, and the task of each language (every lookup
\* returns, every write_to_dir returns).  RConstruct is enabled exactly
\* while rmain = "construct" and WCommit(l) exactly while rw[l].pc =
\* "commit", and a step of either leaves these states, so that their weak
\* fairness is stated on the states.
RunFairness ==
    /\ WF_vars(RSpawn \/ RDropTx \/ RJoin \/ RFsync)
    /\ []<>(rmain # "construct")
    /\ WF_vars(RRecv \/ RStop)
    /\ \A l \in Langs : WF_vars(WStart(l) \/ WLookup(l) \/ WSend(l) \/ WSendIo(l))
    /\ \A l \in Langs : []<>(rw[l].pc # "commit")

SpecRunFair == RunFairInit /\ [][RNext]_vars /\ RunFairness

ParseInit == PInit /\ MIdle /\ CIdle /\ RIdle /\ FIdle /\ LIdle /\ TIdle

SpecParse == ParseInit /\ [][PNext]_vars

FetchInit == FInit /\ MIdle /\ CIdle /\ RIdle /\ PIdle /\ LIdle /\ TIdle

SpecFetch == FetchInit /\ [][FNext]_vars

LookupInit == LInit /\ MIdle /\ CIdle /\ RIdle /\ PIdle /\ FIdle /\ TIdle

SpecLookup == LookupInit /\ [][LNext]_vars

TwoRunsInit == TInit /\ MIdle /\ CIdle /\ RIdle /\ PIdle /\ FIdle /\ LIdle

SpecTwoRuns == TwoRunsInit /\ [][TNext]_vars

\* ------------------------------------------------------------------------
\* Properties of the merger (SpecMerge)
\* ------------------------------------------------------------------------

\* Position of the `if L then` that opens the block of the header: the first
\* one that follows a line holding the header with no other locale's header
\* line in between (0 if there is none).
BlockOpen(lines, header) ==
    LET opens == {f \in 1..Len(lines) :
                    /\ trim(lines[f]) = IfLThen
                    /\ \E h \in 1..(f - 1) :
                          /\ contains(lines[h], header)
                          /\ \A k \in (h + 1)..(f - 1) :
                                \/ ~starts_with(trim(lines[k]), <<"L =">>)
                                \/ trim(lines[k]) = header}
    IN  IF opens = {} THEN 0 ELSE Min(opens)

\* Position of the first `end` after the opening (Len+1 if there is none).
BlockClose(lines, header) ==
    Min({e \in (BlockOpen(lines, header) + 1)..Len(lines) :
            trim(lines[e]) = EndLine} \cup {Len(lines) + 1})

\* The lines of the header's block.
BlockRange(lines, header) ==
    IF BlockOpen(lines, header) = 0 THEN {}
    ELSE (BlockOpen(lines, header) + 1)..(BlockClose(lines, header) - 1)

\* The line assigns to L.<name> and is not commented out.
IsPlainAssignment(line, name) ==
    /\ starts_with(trim_start(line), <<"L.">> \o name)
    /\ contains(line, <<"=">>)

\* The names with a non-commented assignment line in the header's block.
AssignedNames(text, header) ==
    {n \in Names : \E i \in BlockRange(text.lines, header) :
                        IsPlainAssignment(text.lines[i], n)}

\* The lines of the file before and after the recorded call.
OldLines == mcall.before.text.lines

NewLines == mfile.text.lines

\* The line holds L.<name> for a name of the map.
MentionsNameOf(line, values) ==
    \E n \in MapNames(values) : contains(line, <<"L.">> \o n)

ConsumesName(lines, i, values) ==
    /\ LocaleAssignmentCaptures(lines[i]).ok
    /\ LocaleAssignmentCaptures(lines[i]).name \in MapNames(values)
    /\ \A j \in BlockRange(lines, MHeader) :
          (j < i /\ LocaleAssignmentCaptures(lines[j]).ok)
             => LocaleAssignmentCaptures(lines[j]).name
                   # LocaleAssignmentCaptures(lines[i]).name

\* The names of the map that a line of the block consumes.
ConsumedNames(lines, values) ==
    {LocaleAssignmentCaptures(lines[i]).name :
        i \in {j \in BlockRange(lines, MHeader) : ConsumesName(lines, j, values)}}

\* What the line that consumes the name of entry e becomes.
MergedLine(line, e) ==
    IF e.is_valid /\ (\/ LocaleAssignmentCaptures(line).is_comment
                      \/ LocaleAssignmentCaptures(line).value # e.translation)
    THEN <<"\t", "L.">> \o e.name \o <<" ", "=", " ", "\"">> \o e.translation
            \o <<"\"">> \o LocaleAssignmentCaptures(line).leftover
    ELSE line

\* C18: in the header's block, the assignment line that consumes a name of
\* the map becomes `\tL.<name> = "<translation>"` followed by the text it had
\* after its closing quote when the translation is valid and the line is
\* commented or holds another value, and stays as it is otherwise (so a
\* translation that is not valid changes no line); every other line of the
\* block stays as it is; a consumed name gets no new line.
C18_ReplaceInPlace ==
    (mcall.op = "write" /\ mcall.before.exists
        /\ BlockOpen(OldLines, MHeader) > 0)
        => /\ \A i \in BlockRange(OldLines, MHeader) :
                 NewLines[i] =
                    IF ConsumesName(OldLines, i, mcall.values)
                    THEN MergedLine(OldLines[i],
                            MapGet(mcall.values,
                                   LocaleAssignmentCaptures(OldLines[i]).name))
                    ELSE OldLines[i]
           /\ BlockClose(OldLines, MHeader) <= Len(OldLines)
                 => Len(NewLines) - Len(OldLines) =
                       Cardinality(MapNames(mcall.values)
                                      \ ConsumedNames(OldLines, mcall.values))

\* The block holds bob's line with the value a and tom's commented line
\* with the text --a after its closing quote; the map gives bob the text b,
\* not valid, and tom the valid text a: bob's line is as it was, tom's line
\* is uncommented and keeps --a, and no line was added.
C18_Witness ==
    /\ mcall.op = "write"
    /\ mcall.before.exists
    /\ mcall.values =
          <<[name |-> <<"bob">>, translation |-> <<"b">>, is_valid |-> FALSE],
            [name |-> <<"tom">>, translation |-> <<"a">>, is_valid |-> TRUE]>>
    /\ Len(NewLines) = Len(OldLines)
    /\ \E i, j \in BlockRange(OldLines, MHeader) :
          /\ OldLines[i] = BobLine
          /\ NewLines[i] = BobLine
          /\ OldLines[j] = TomCommentedLine
          /\ NewLines[j] =
                <<"\t", "L.", "tom", " ", "=", " ", "\"", "a", "\"", " ", "--", "a">>

\* The entries of the map that no line of the block consumes, in the order
\* of the map.
Unconsumed(lines, values) ==
    SelectSeq(values, LAMBDA e : e.name \notin ConsumedNames(lines, values))

\* The line written for a new entry.
NewEntryLine(e) ==
    IF e.is_valid
    THEN <<"\t", "L.">> \o e.name \o <<" ", "=", " ", "\"">> \o e.translation
            \o <<"\"">>
    ELSE <<"\t", "--", " ", "L.">> \o e.name \o <<" ", "=", " ", "\"">>
            \o e.translation \o <<"\"">>

\* C19: when the header's block is closed by an `end` line, the entries of
\* the map that no line of the block consumed are written one line each, in
\* the order of the map, between the last line of the block and that `end`
\* line, and nothing else is added.
C19_AppendedBeforeEnd ==
    (mcall.op = "write" /\ mcall.before.exists
        /\ BlockOpen(OldLines, MHeader) > 0
        /\ BlockClose(OldLines, MHeader) <= Len(OldLines))
        => /\ Len(NewLines) =
                 Len(OldLines) + Len(Unconsumed(OldLines, mcall.values))
           /\ \A k \in 1..Len(Unconsumed(OldLines, mcall.values)) :
                 NewLines[BlockClose(OldLines, MHeader) + k - 1] =
                    NewEntryLine(Unconsumed(OldLines, mcall.values)[k])
           /\ NewLines[BlockClose(OldLines, MHeader)
                          + Len(Unconsumed(OldLines, mcall.values))] = EndLine
           /\ trim(OldLines[BlockClose(OldLines, MHeader)]) = EndLine

\* The block is empty and followed by a block of frFR; the map is tom, not
\* valid, then bob: tom's commented line and bob's line are written in that
\* order before the `end` of the block.
C19_Witness ==
    /\ mcall.op = "write"
    /\ mcall.before.exists
    /\ BlockOpen(OldLines, MHeader) = 3
    /\ BlockClose(OldLines, MHeader) = 4
    /\ Len(OldLines) > 4
    /\ mcall.values =
          <<[name |-> <<"tom">>, translation |-> <<"b">>, is_valid |-> FALSE],
            [name |-> <<"bob">>, translation |-> <<"a">>, is_valid |-> TRUE]>>
    /\ NewLines[4] = <<"\t", "--", " ", "L.", "tom", " ", "=", " ", "\"", "b", "\"">>
    /\ NewLines[5] = <<"\t", "L.", "bob", " ", "=", " ", "\"", "a", "\"">>
    /\ NewLines[6] = EndLine
    /\ Len(NewLines) = Len(OldLines) + 2

\* The lines written for the entries q.
EntryLines(q) == [k \in 1..Len(q) |-> NewEntryLine(q[k])]

\* The lines of the block of a file that did not exist.
FreshBlockLines(values) ==
    <<<<"local", " ">> \o MHeader, <<"if not L then return end">>, <<"if L then">>>>
        \o EntryLines(values) \o <<<<"end">>>>

\* The scan of the lines does not reach the `end` of a block of the header.
BlockNotClosed(lines) ==
    \/ BlockOpen(lines, MHeader) = 0
    \/ BlockClose(lines, MHeader) > Len(lines)

\* C20 as stated: when no block of the header is found in a file that is
\* not blank, the result is the old lines, one empty line, and the block of
\* a fresh file (local header, guard, `if L then`, value lines, `end`); for
\* a blank file it is that block alone.
C20_FallbackLikeFreshFile ==
    (mcall.op = "write" /\ mcall.before.exists)
        => /\ (BlockOpen(OldLines, MHeader) = 0 /\ ~IsBlankText(mcall.before.text))
                 => NewLines = OldLines \o <<<<>>>> \o FreshBlockLines(mcall.values)
           /\ IsBlankText(mcall.before.text)
                 => NewLines = FreshBlockLines(mcall.values)

\* C20: when the scan of a file that is not blank does not reach the `end`
\* of a block of the header, the result is the old lines (those of an
\* unterminated block merged in place), an empty line only when the old
\* text ended with a line ending, then the header line without `local`,
\* `if L then`, one line for each entry not consumed, and `end`, with no
\* guard line; for a blank file the result is the block of a fresh file
\* alone.
C20_FallbackAppendsBareBlock ==
    (mcall.op = "write" /\ mcall.before.exists)
        => /\ (BlockNotClosed(OldLines) /\ ~IsBlankText(mcall.before.text))
                 => /\ SubSeq(NewLines, Len(OldLines) + 1, Len(NewLines)) =
                          (IF mcall.before.text.nl THEN <<<<>>>> ELSE <<>>)
                             \o <<MHeader, <<"if L then">>>>
                             \o EntryLines(Unconsumed(OldLines, mcall.values))
                             \o <<<<"end">>>>
                    /\ \A i \in 1..Len(OldLines) :
                          i \notin BlockRange(OldLines, MHeader)
                             => NewLines[i] = OldLines[i]
                    /\ mfile.text.nl
           /\ IsBlankText(mcall.before.text)
                 => /\ NewLines = FreshBlockLines(mcall.values)
                    /\ mfile.text.nl

\* The file holds a block of frFR only, and its text ends with a line
\* ending: an empty line, the header of deDE, `if L then`, bob's line and
\* `end` were appended.
C20_Witness ==
    /\ mcall.op = "write"
    /\ mcall.before.exists
    /\ mcall.before.text.nl
    /\ OldLines = <<LocalHeaderLine("deDE"), Header("frFR"), IfLThen, BobLine, EndLine>>
    /\ mcall.values =
          <<[name |-> <<"bob">>, translation |-> <<"a">>, is_valid |-> TRUE]>>
    /\ NewLines = OldLines \o <<<<>>, MHeader, <<"if L then">>, BobLine, <<"end">>>>

\* The text is wrapped in [ and ].
Wrapped(t) == Len(t) >= 2 /\ t[1] = "[" /\ t[Len(t)] = "]"

\* The heading text holds no quote and no title.
IsPlainHeading(h) == \A i \in 1..Len(h) : h[i] \notin {"\"", "<", ">"}

\* The name of the entry has an assignment line in a block of the file.
HasLineOf(file, name) ==
    /\ file.exists
    /\ \E i \in BlockRange(file.text.lines, Header("deDE")) :
          /\ LocaleAssignmentCaptures(file.text.lines[i]).ok
          /\ LocaleAssignmentCaptures(file.text.lines[i]).name = name

FileLines(file) == IF file.exists THEN file.text.lines ELSE <<>>

\* C16: the heading text, its title stripped and its quotes escaped, is
\* stored without its first and last character and with is_valid = false
\* when it is wrapped in [ and ], and stored whole with is_valid = true
\* otherwise (for a heading with no title and no quote the heading itself
\* decides); when the entry's name has no line in the block, write_to_dir
\* adds one line for it, `\t-- L.<name> = "<text>"` when is_valid is false
\* and `\tL.<name> = "<text>"` when it is true, and the commented form is
\* written for no valid entry.
C16_BracketedIsInvalid ==
    /\ fpc \in {"translated", "written"}
          => /\ fentry.is_valid = ~Wrapped(EscapeQuotes(StripTitle(fin.heading)))
             /\ fentry.translation =
                   (IF Wrapped(EscapeQuotes(StripTitle(fin.heading)))
                    THEN SubSeq(EscapeQuotes(StripTitle(fin.heading)), 2,
                                Len(EscapeQuotes(StripTitle(fin.heading))) - 1)
                    ELSE EscapeQuotes(StripTitle(fin.heading)))
             /\ IsPlainHeading(fin.heading)
                   => /\ fentry.is_valid = ~Wrapped(fin.heading)
                      /\ fentry.translation =
                            (IF Wrapped(fin.heading)
                             THEN SubSeq(fin.heading, 2, Len(fin.heading) - 1)
                             ELSE fin.heading)
    /\ (fpc = "written" /\ ~HasLineOf(fin.file, fin.name))
          => /\ Len(FileLines(ffile)) > Len(FileLines(fin.file))
             /\ \E i \in 1..Len(ffile.text.lines) :
                   ffile.text.lines[i] =
                      (IF fentry.is_valid THEN <<"\t">> ELSE <<"\t", "--", " ">>)
                         \o <<"L.">> \o fin.name \o <<" ", "=", " ", "\"">>
                         \o fentry.translation \o <<"\"">>
             /\ fentry.is_valid
                   => \A i \in 1..Len(ffile.text.lines) :
                         ffile.text.lines[i] #
                            <<"\t", "--", " ", "L.">> \o fin.name
                               \o <<" ", "=", " ", "\"">>
                               \o fentry.translation \o <<"\"">>

\* The heading [a] is stored as the text a with is_valid = false, and the
\* file that did not exist holds the commented line of bob.
C16_Witness ==
    /\ fpc = "written"
    /\ fin.heading = <<"[", "a", "]">>
    /\ fin.name = <<"bob">>
    /\ ~fin.file.exists
    /\ fentry = [translation |-> <<"a">>, is_valid |-> FALSE]
    /\ ffile.text.lines[4] =
          <<"\t", "--", " ", "L.", "bob", " ", "=", " ", "\"", "a", "\"">>

\* C1: merging the same values with the same header a second time changes
\* nothing and performs no file operation.
C1_MergeIdempotent ==
    mcall.op = "write_again" => (mfile = mcall.before /\ mcall.ops = <<>>)

\* C4: when the merged text is the existing text, write_to_dir performs no
\* file operation (no temporary file, no rename, copy or write) and the
\* file is what it was.
C4_NoWriteWhenUnchanged ==
    (/\ mcall.op \in {"write", "write_again"}
     /\ mcall.before.exists
     /\ replace(mcall.before.text, MHeader, mcall.values).text = mcall.before.text)
        => (mcall.ops = <<>> /\ mfile = mcall.before)

\* C4 witness: the existing non-commented line of bob already holds the new
\* valid translation, and nothing was done.
C4_Witness ==
    /\ mcall.op = "write"
    /\ mcall.before.exists
    /\ mcall.values =
          <<[name |-> <<"bob">>, translation |-> <<"a">>, is_valid |-> TRUE]>>
    /\ \E i \in BlockRange(mcall.before.text.lines, MHeader) :
          mcall.before.text.lines[i] = BobLine
    /\ mcall.ops = <<>>
    /\ mfile = mcall.before

\* C6: the discard scan of a freshly synthesized file removes from the work
\* set exactly the names written with is_valid = true.
C6_RoundTrip ==
    (mcall.op = "rescan" /\ ~mcall.before.exists)
        => MapNames(mcall.result) =
              {mcall.values[i].name :
                  i \in {j \in 1..Len(mcall.values) : ~mcall.values[j].is_valid}}

\* C32: after write_to_dir has merged a map into an existing file, the
\* pruning scan of the result with the same header removes every name of
\* the map that was written as valid.
C32_ConvergesAcrossRuns ==
    (mcall.op = "rescan" /\ mcall.before.exists)
        => \A i \in 1..Len(mcall.values) :
              mcall.values[i].is_valid
                 => mcall.values[i].name \notin MapNames(mcall.result)

\* C33 as stated: write_to_dir with an empty map neither creates nor
\* changes the file.
C33_EmptyMapTouchesNothing ==
    (mcall.op = "write" /\ mcall.values = <<>>)
        => (mfile = mcall.before /\ mcall.ops = <<>>)

\* C33: write_to_dir with an empty map leaves the file as it is only when
\* the file holds a block of the header that is closed by `end`; a file
\* that does not exist is created with the header, the guard and an empty
\* block, a blank file is rewritten as that text, and a file without a
\* closed block of the header gets the header and an empty block appended.
C33_EmptyMapWritesEmptyBlock ==
    (mcall.op = "write" /\ mcall.values = <<>>)
        => /\ ~mcall.before.exists
                 => /\ mfile.exists /\ mfile.text.nl
                    /\ NewLines = FreshBlockLines(<<>>)
                    /\ mcall.ops = <<"create", "write", "sync">>
           /\ (mcall.before.exists /\ ~BlockNotClosed(OldLines))
                 => (mfile = mcall.before /\ mcall.ops = <<>>)
           /\ (mcall.before.exists /\ IsBlankText(mcall.before.text))
                 => NewLines = FreshBlockLines(<<>>)
           /\ (/\ mcall.before.exists /\ BlockNotClosed(OldLines)
               /\ ~IsBlankText(mcall.before.text))
                 => NewLines = OldLines
                                \o (IF mcall.before.text.nl THEN <<<<>>>> ELSE <<>>)
                                \o <<MHeader, <<"if L then">>, <<"end">>>>

\* An empty map was handed to write_to_dir and the file did not exist: it
\* holds the header, the guard and an empty block now.
C33_Witness ==
    /\ mcall.op = "write"
    /\ mcall.values = <<>>
    /\ ~mcall.before.exists
    /\ mfile = File(Text(<<LocalHeaderLine("deDE"), GuardLine, IfLThen, EndLine>>, TRUE))

\* The line assigns to L.<name>, commented out or not.
AssignsTo(line, name) ==
    \/ contains(line, <<"L.">> \o name \o <<" ", "=">>)
    \/ contains(line, <<"L.">> \o name \o <<"=">>)

\* C34: after write_to_dir with a map, every name of the map has an
\* assignment line in the file, in the block of the header or among the
\* lines written after the old ones, also when the block of the old file
\* has no `end`.
C34_NoTranslationLost ==
    mcall.op = "write"
        => \A i \in 1..Len(mcall.values) :
              \E j \in 1..Len(NewLines) :
                  /\ AssignsTo(NewLines[j], mcall.values[i].name)
                  /\ j \in BlockRange(NewLines, MHeader) \/ j > Len(OldLines)

\* The old file has the header, `if L then` and bob's line but no `end`:
\* bob keeps its line and tom's line is written after the old lines.
C34_Witness ==
    /\ mcall.op = "write"
    /\ mcall.before.exists
    /\ BlockOpen(OldLines, MHeader) # 0
    /\ BlockClose(OldLines, MHeader) > Len(OldLines)
    /\ MapNames(mcall.values) = {<<"bob">>, <<"tom">>}
    /\ \E j \in 1..Len(OldLines) : AssignsTo(NewLines[j], <<"bob">>)
    /\ \A j \in 1..Len(OldLines) : ~AssignsTo(NewLines[j], <<"tom">>)
    /\ \E j \in (Len(OldLines) + 1)..Len(NewLines) : AssignsTo(NewLines[j], <<"tom">>)

\* C35: in a run without full refresh every non-commented assignment line
\* of the header's block is after the merge what and where it was before
\* the run, whatever the lookups returned.
C35_PlainLinesUntouched ==
    (mcall.op = "write_pruned" /\ mcall.before.exists)
        => \A i \in BlockRange(OldLines, MHeader) :
              (\E n \in Names : IsPlainAssignment(OldLines[i], n))
                 => (i <= Len(NewLines) /\ NewLines[i] = OldLines[i])

\* The block held bob's line and a commented line of tom; the run looked
\* tom up, replaced its line, and bob's line is as it was.
C35_Witness ==
    /\ mcall.op = "write_pruned"
    /\ mcall.ids_map = <<[name |-> <<"bob">>], [name |-> <<"tom">>]>>
    /\ mcall.values = <<[name |-> <<"tom">>, translation |-> <<"a">>, is_valid |-> TRUE]>>
    /\ \E i, j \in BlockRange(OldLines, MHeader) :
          /\ OldLines[i] = BobLine /\ NewLines[i] = BobLine
          /\ OldLines[j] = TomCommentedLine /\ NewLines[j] # TomCommentedLine

\* C9: the pruning scan of an existing file removes from the work set
\* exactly the names with a non-commented assignment line in the header's
\* block, and keeps the order of the rest.
C9_PruneExact ==
    (mcall.op = "prune" /\ mcall.before.exists)
        => /\ MapNames(mcall.result) =
                 MapNames(mcall.ids_map) \ AssignedNames(mcall.before.text, MHeader)
           /\ \A i, j \in 1..Len(mcall.result) :
                 i < j =>
                    \E a, b \in 1..Len(mcall.ids_map) :
                        /\ a < b
                        /\ mcall.ids_map[a] = mcall.result[i]
                        /\ mcall.ids_map[b] = mcall.result[j]

\* C9 witness: bob has a plain line in the block and is removed; tom has
\* only a commented line there and stays.
C9_Witness ==
    /\ mcall.op = "prune"
    /\ mcall.before.exists
    /\ mcall.ids_map = <<[name |-> <<"bob">>], [name |-> <<"tom">>]>>
    /\ mcall.result = <<[name |-> <<"tom">>]>>
    /\ \E i \in BlockRange(mcall.before.text.lines, MHeader) :
          mcall.before.text.lines[i] = TomCommentedLine

\* ------------------------------------------------------------------------
\* Properties of the commit (SpecCommit)
\* ------------------------------------------------------------------------

\* What to_path holds after a write_to_dir in which nothing fails.
CommittedFile == write_to_dir(cold, MHeader, cvalues).file

\* C2: the target file is absent, holds its complete previous content or
\* holds the complete new content, whatever step the commit is at.
C2_NeverPartial == ctarget \in {NoFile, cold, CommittedFile}

\* C3: with an existing target, the target holds its original content as
\* long as the rename has not been attempted; the rename is attempted only
\* with the temporary file fully written and synced; after a successful
\* commit no temporary file remains.
C3_AtomicExisting ==
    /\ (cold.exists /\ ~clocal.rename_tried) => ctarget = cold
    /\ cpc = "rename" => (ctmp = File(cnew) /\ clocal.synced)
    /\ cres = "ok" => ~ctmp.exists

\* C3 witness: interrupted with the temporary file written and synced and
\* the rename not attempted; the existing target is what it was.
C3_Witness ==
    /\ cres = "interrupted"
    /\ cold.exists
    /\ ctmp = File(cnew)
    /\ clocal.synced
    /\ ~clocal.rename_tried
    /\ ctarget = cold

\* A write_to_dir in which nothing failed left what write_to_dir gives.
CommitAgrees ==
    (cres = "ok" /\ (~clocal.rename_tried \/ ~ctmp.exists)) => ctarget = CommittedFile

\* ------------------------------------------------------------------------
\* Properties of the run
\* ------------------------------------------------------------------------

EntryNames(ids_map) == [i \in 1..Len(ids_map) |-> ids_map[i].name]

IsEntryEvent(msg) == msg.kind \in {"ok", "data"}

IsErrorEvent(msg) == msg.kind \in {"io", "data"}

EntryEventsOf(l, msgs) ==
    SelectSeq(msgs, LAMBDA m : IsEntryEvent(m) /\ m.language = l)

ErrorEventsOf(l, msgs) ==
    SelectSeq(msgs, LAMBDA m : IsErrorEvent(m) /\ m.language = l)

\* The work set of a language as the run's arguments and files give it.
WorkSet(l) ==
    IF rinput.force_all THEN rinput.ids_map
    ELSE PruneWorkSet(rinput.files[l], Header(l), rinput.ids_map)

\* C7: in every interleaving, the events sent for a language's entries are
\* one per entry, in the order of the work set, and all of them once its
\* lookups are over; the events in the channel are those sent and not yet
\* received, so none is lost; the reporter's counter is the number of entry
\* events received, and it equals total when the reporter stops.
C7_OneEventPerEntry ==
    /\ \A l \in DOMAIN rdata :
          /\ rw[l].sent = SubSeq(EntryNames(rdata[l]), 1, Len(rw[l].sent))
          /\ rw[l].pc \in {"commit", "send_io", "done"}
                => rw[l].sent = EntryNames(rdata[l])
          /\ Len(EntryEventsOf(l, rchan)) <= Len(rw[l].sent)
          /\ [i \in 1..Len(EntryEventsOf(l, rchan)) |->
                 EntryEventsOf(l, rchan)[i].name]
               = SubSeq(rw[l].sent,
                        Len(rw[l].sent) - Len(EntryEventsOf(l, rchan)) + 1,
                        Len(rw[l].sent))
    /\ rrep.processed + Len(SelectSeq(rchan, IsEntryEvent))
          = SumLen([l \in DOMAIN rdata |-> rw[l].sent], DOMAIN rdata)
    /\ rrep.pc = "stopped" => rrep.processed = rtotal

\* The reporter has stopped after a run of two languages with two entries
\* each, one of them failed, and an I/O error besides.
C7_Witness ==
    /\ rrep.pc = "stopped"
    /\ rtotal = 4
    /\ rrep.processed = 4
    /\ \E i \in 1..Len(rstderr) : rstderr[i].kind = "data"
    /\ \E i \in 1..Len(rstderr) : rstderr[i].kind = "io"

Diagnostics == SelectSeq(rstderr, IsErrorEvent)

Grouped(msgs) ==
    ~ \E i, j, k \in 1..Len(msgs) :
          i < j /\ j < k /\ msgs[i].kind = msgs[k].kind /\ msgs[j].kind # msgs[i].kind

C10_EmptyLanguageDropped ==
    \A l \in Langs :
        (rmain \notin {"idle", "construct"} /\ WorkSet(l) = <<>>)
            => /\ rw[l] = NoTask
               /\ rfiles[l] = rinput.files[l]
               /\ \A i \in 1..Len(rchan) : rchan[i].language # l
               /\ \A i \in 1..Len(rstderr) : rstderr[i].language # l

\* The run is over: deDE had every name assigned and was dropped, frFR was
\* processed.
C10_Witness ==
    /\ rmain = "done"
    /\ rinput.ids_map # <<>>
    /\ rinput.files["deDE"].exists
    /\ WorkSet("deDE") = <<>>
    /\ rw["deDE"] = NoTask
    /\ rw["frFR"].pc = "done"
    /\ rw["frFR"].merges = 1

\* The work set of a language once the data is built (dropped: empty).
DataOf(l) == IF l \in DOMAIN rdata THEN rdata[l] ELSE <<>>

\* C11: in full-refresh mode the work set of every language is the complete
\* input mapping, whatever the existing files hold, and when the run is
\* over one lookup was made for every entry of every language.
C11_FullRefresh ==
    (rinput.force_all /\ rmain \notin {"idle", "construct"})
        => \A l \in Langs :
              /\ DataOf(l) = rinput.ids_map
              /\ rmain = "done" => rw[l].lookups = Len(rinput.ids_map)

\* A full refresh is over: the file of deDE held bob's line, and bob and
\* tom were both looked up for deDE.
C11_Witness ==
    /\ rinput.force_all
    /\ rmain = "done"
    /\ rinput.files["deDE"].exists
    /\ Len(rinput.ids_map) = 2
    /\ rw["deDE"].lookups = 2

\* C12: when total is zero no reporter thread is started, no lookup is
\* made, no file is created or modified, the directory is not fsynced, and
\* the run says that there is nothing to do and ends.
C12_NothingToDo ==
    (rmain \notin {"idle", "construct"} /\ rtotal = 0)
        => /\ rmain = "done"
           /\ rrep.pc = "none"
           /\ \A l \in Langs : rw[l] = NoTask
           /\ rfiles = rinput.files
           /\ rfsyncs = 0
           /\ rchan = <<>>
           /\ Len(rstderr) = 1 /\ rstderr[1].kind = "nothing"

\* Every name of a non-empty input mapping is assigned in both files: the
\* run ended with nothing to do.
C12_Witness ==
    /\ rmain = "done"
    /\ rtotal = 0
    /\ rinput.ids_map # <<>>
    /\ \A l \in Langs : rinput.files[l].exists
    /\ Len(rstderr) = 1

IoEventsOf(l) == SelectSeq(rw[l].errors, LAMBDA m : m.kind = "io")

\* C13: a failure of write_to_dir for a language gives exactly one IoError
\* event, with the path write_to_dir returned, and none is sent otherwise;
\* a language whose write_to_dir returned Ok has made all its lookups and
\* its file is the merge of its map into the file the run found, whatever
\* happened to the other languages.
C13_IoErrorIsolated ==
    \A l \in DOMAIN rdata :
        rw[l].pc = "done"
            => /\ IoEventsOf(l) =
                     (IF rw[l].commit = "none" THEN <<>>
                      ELSE <<[kind |-> "io", language |-> l, name |-> <<rw[l].commit>>]>>)
               /\ rw[l].commit = "none"
                     => /\ rw[l].lookups = Len(rdata[l])
                        /\ rw[l].merges = 1
                        /\ rfiles[l] =
                              write_to_dir(rinput.files[l], Header(l), rw[l].map).file

\* The commit of deDE failed on the target's path and was reported; frFR
\* made its two lookups and its file was committed.
C13_Witness ==
    /\ rmain = "done"
    /\ rw["deDE"].commit = "to_path"
    /\ \E i \in 1..Len(rstderr) :
          rstderr[i] = [kind |-> "io", language |-> "deDE", name |-> <<"to_path">>]
    /\ rw["frFR"].commit = "none"
    /\ rw["frFR"].lookups = 2
    /\ rfiles["frFR"] # rinput.files["frFR"]

DataErrorNames(l) ==
    [i \in 1..Len(SelectSeq(rw[l].errors, LAMBDA m : m.kind = "data")) |->
        SelectSeq(rw[l].errors, LAMBDA m : m.kind = "data")[i].name]

SeqRange(q) == {q[i] : i \in 1..Len(q)}

\* C14: every entry is looked up at most once and, when the lookups of the
\* language are over, exactly once; a failed lookup gives one DataError
\* event with the language and the name, and its name is not in the map
\* handed to write_to_dir; the map holds the other entries, in the order of
\* the work set, and is merged.
C14_DataErrorDropsEntry ==
    \A l \in DOMAIN rdata :
        /\ rw[l].lookups = Len(rw[l].sent) + (IF rw[l].pc = "send" THEN 1 ELSE 0)
        /\ rw[l].lookups <= Len(rdata[l])
        /\ SeqRange(DataErrorNames(l)) \cap MapNames(rw[l].map) = {}
        /\ SeqRange(DataErrorNames(l)) \cup MapNames(rw[l].map) = SeqRange(rw[l].sent)
        /\ Len(DataErrorNames(l)) + Len(rw[l].map) = Len(rw[l].sent)
        /\ \A i, j \in 1..Len(rw[l].map) :
              i < j => \E a, b \in 1..Len(rdata[l]) :
                          /\ a < b
                          /\ rdata[l][a].name = rw[l].map[i].name
                          /\ rdata[l][b].name = rw[l].map[j].name
        /\ rw[l].pc \in {"send_io", "done"}
              => /\ rw[l].lookups = Len(rdata[l])
                 /\ rw[l].merges = 1

\* The lookup of bob failed for deDE and that of tom did not: one DataError
\* on stderr, and the committed file holds tom's line and not bob's.
C14_Witness ==
    /\ rmain = "done"
    /\ ~rinput.files["deDE"].exists
    /\ "deDE" \in DOMAIN rdata
    /\ rdata["deDE"] = <<[name |-> <<"bob">>], [name |-> <<"tom">>]>>
    /\ DataErrorNames("deDE") = << <<"bob">> >>
    /\ MapNames(rw["deDE"].map) = { <<"tom">> }
    /\ rw["deDE"].commit = "none"
    /\ AssignedNames(rfiles["deDE"].text, Header("deDE")) = { <<"tom">> }
    /\ \E i \in 1..Len(rstderr) :
          rstderr[i] = [kind |-> "data", language |-> "deDE", name |-> <<"bob">>]


\* The reporter takes a message from the channel in this step.
Receives == Len(rchan') < Len(rchan)

\* C21: a step in which the reporter receives an Ok or a DataError event
\* adds one to processed, a step in which it receives an IoError event and
\* every other step leave processed as it is, and 0 <= processed <= total
\* in every state once total is known.
C21_ProcessedRule ==
    /\ [](rmain \notin {"idle", "construct"}
             => (0 <= rrep.processed /\ rrep.processed <= rtotal))
    /\ [][rrep'.processed =
             rrep.processed
                + (IF Receives /\ Head(rchan).kind \in {"ok", "data"} THEN 1 ELSE 0)]_vars

\* The reporter has received an Ok, a DataError and an IoError event and
\* processed is total, two.
C21_Witness ==
    /\ rrep.pc = "stopped"
    /\ rtotal = 2
    /\ rrep.processed = 2
    /\ \E i, j \in 1..Len(rstderr) : rstderr[i].kind = "io" /\ rstderr[j].kind = "data"
    /\ \E l \in Langs : Len(rw[l].sent) > Len(rw[l].errors)


\* C24: when the rename failed and the copy of the temporary file over the
\* target failed too, write_to_dir returns the copy error, the one with
\* the target path, also when the removal of the temporary file fails.
C24_CopyErrorSurfaced ==
    (cpc = "returned" /\ clocal.rename_tried /\ ~clocal.copy_ok /\ cres # "ok")
        => cres = "err_to_path"

\* C25: in a run with work to do the directory is fsynced once, when the
\* run ends, and not before every language's write_to_dir has returned and
\* the reporter has stopped; no file of the directory changes after it.
C25_FsyncOnceAtEnd ==
    /\ [](/\ rfsyncs <= 1
          /\ rfsyncs = 1
                => /\ rmain = "done"
                   /\ rrep.pc = "stopped"
                   /\ \A l \in DOMAIN rdata : rw[l].pc = "done" /\ rw[l].merges = 1
          /\ (rmain = "done" /\ rtotal > 0) => rfsyncs = 1)
    /\ [][rfsyncs >= 1 => rfiles' = rfiles]_vars
    /\ [][rfsyncs' # rfsyncs
             => /\ rfsyncs' = rfsyncs + 1
                /\ rrep.pc = "stopped"
                /\ \A l \in DOMAIN rdata : rw[l].pc = "done"]_vars

\* Both languages were committed, deDE with a failure that the reporter
\* wrote, and the directory was fsynced after that.
C25_Witness ==
    /\ rmain = "done"
    /\ rfsyncs = 1
    /\ DOMAIN rdata = Langs
    /\ rw["deDE"].commit = "to_path"
    /\ rw["frFR"].commit = "none"
    /\ rfiles["frFR"] # rinput.files["frFR"]
    /\ \E i \in 1..Len(rstderr) : rstderr[i].kind = "io"

\* ------------------------------------------------------------------------
\* Properties of the lookups of one language
\* ------------------------------------------------------------------------

\* C22: while a lookup of the language is in flight and the language has an
\* entry that was not requested yet, the request of another entry can be
\* sent: lookups of one language overlap.
C22_LookupsOverlap ==
    (linflight # {} /\ \E i \in 1..Len(lids_map) : i > lnext)
        => ENABLED LRequest

\* ------------------------------------------------------------------------
\* Properties of two invocations
\* ------------------------------------------------------------------------

\* The invocation has its temporary path and has not renamed it yet.
HoldsTmp(p) == trun[p].pc \in {"create_tmp", "write_tmp", "rename"}

\* C23: two invocations that commit the same language at the same time
\* hold different temporary paths, so every file renamed to a target holds
\* the text of the one invocation that renamed it, and no invocation finds
\* its temporary file gone.
C23_TmpPathUnique ==
    /\ \A p, q \in Runs :
          (p # q /\ HoldsTmp(p) /\ HoldsTmp(q) /\ trun[p].code = trun[q].code)
             => TmpPath(trun[p].code, trun[p].ts) # TmpPath(trun[q].code, trun[q].ts)
    /\ \A code \in Langs : Len(ttarget[code].writes) <= 1
    /\ \A p \in Runs : trun[p].pc # "err"

\* ------------------------------------------------------------------------
\* Properties of the extraction
\* ------------------------------------------------------------------------

\* C5: the extraction result has |entries| + |missing_vars| = the number of
\* RawVariable records and |entries| + |missing_ids| = the number of
\* RawIdentifier records, the records being the tables of the line scan.
C5_CountsAgree ==
    ppc = "done"
        => /\ Len(pvar_to_id_map) + Len(pmissing_vars) = Len(ptables.vars)
           /\ Len(pvar_to_id_map) + Len(pmissing_ids) = Len(ptables.ids)

\* The RawVariable records whose text is the comment of a RawIdentifier, in
\* table order.
MatchedVars == SelectSeq(ptables.vars, LAMBDA e : e.key \in MapKeys(ptables.ids))

\* The RawVariable records with no such RawIdentifier, in table order.
OrphanVars == SelectSeq(ptables.vars, LAMBDA e : e.key \notin MapKeys(ptables.ids))

\* The RawIdentifier records that no RawVariable's text names, in table
\* order.
OrphanIds == SelectSeq(ptables.ids, LAMBDA e : e.key \notin MapKeys(ptables.vars))

\* C17: the result holds one entry (variable name, id) for every
\* RawVariable whose text is the comment of a RawIdentifier, in table order;
\* the other RawVariables are missing_vars, and the RawIdentifiers that no
\* RawVariable consumed are missing_ids.
C17_ConsumingJoin ==
    ppc = "done"
        => /\ pvar_to_id_map =
                 [k \in 1..Len(MatchedVars) |->
                     [key |-> MatchedVars[k].value,
                      value |-> MapValue(ptables.ids, MatchedVars[k].key)]]
           /\ pmissing_vars =
                 [k \in 1..Len(OrphanVars) |->
                     <<OrphanVars[k].value, OrphanVars[k].key>>]
           /\ pmissing_ids =
                 [k \in 1..Len(OrphanIds) |->
                     <<OrphanIds[k].value, OrphanIds[k].key>>]

\* Lines of the shape of an identifier entry and of a variable entry.
IsIdEntry(line) ==
    /\ Len(line) >= 7
    /\ line[2] \in DigitTokens
    /\ line = IdLine(line[2], SubSeq(line, 7, Len(line)))

IsVarEntry(line) ==
    /\ Len(line) >= 9
    /\ line = VarLine(line[3], SubSeq(line, 8, Len(line) - 1))

\* A line is being read inside a block.
InBlock(state) == ppc = "scan" /\ pline <= Len(pscript) /\ pstate = state

\* C26: inside the identifier block an entry line keeps the state, also
\* when it holds a `)`, and a line that is no entry and holds a `)` returns
\* to Neither; inside the variable block a line whose trimmed text is `end`
\* returns to Neither; every other line that is no entry leaves the state
\* and both tables as they are.
C26_BlockTransitions ==
    [][LET line == pscript[pline]
       IN  /\ (InBlock("ParsingIds") /\ IsIdEntry(line)) => pstate' = "ParsingIds"
           /\ (InBlock("ParsingIds") /\ ~IsIdEntry(line) /\ contains(line, <<")">>))
                 => pstate' = "Neither"
           /\ (InBlock("ParsingVars") /\ trim(line) = <<"end">>) => pstate' = "Neither"
           /\ (\/ InBlock("ParsingIds") /\ ~IsIdEntry(line) /\ ~contains(line, <<")">>)
               \/ InBlock("ParsingVars") /\ ~IsVarEntry(line) /\ trim(line) # <<"end">>)
                 => /\ pstate' = pstate
                    /\ pids_map' = pids_map
                    /\ pvars_map' = pvars_map]_vars

\* The line that closes the first identifier block of the script (past the
\* end if there is none).
FirstIdClose(script) ==
    LET opens == {i \in 1..Len(script) : starts_with(script[i], IDS_START)}
        closes == {j \in 1..Len(script) :
                      /\ opens # {} /\ j > Min(opens)
                      /\ ~IsIdEntry(script[j]) /\ contains(script[j], <<")">>)}
    IN  IF closes = {} THEN Len(script) + 1 ELSE Min(closes)

\* The texts of the variable block of a script with one variable block.
VarBlockTexts(script) ==
    LET opens == {i \in 1..Len(script) : starts_with(script[i], VARS_START)}
    IN  IF Cardinality(opens) # 1 THEN {}
        ELSE {VarCaptures(script[j]).second :
                 j \in {k \in 1..Len(script) : k > Min(opens) /\ IsVarEntry(script[k])}}

\* C27: once the first identifier block is closed no later line adds to
\* or changes the identifier table, and the texts of the variable block are
\* in the variable table when the scan is over, wherever the block stands.
C27_OneIdBlock ==
    /\ [][(ppc = "scan" /\ pline > FirstIdClose(pscript)) => pids_map' = pids_map]_vars
    /\ [](ppc \in {"correlate", "done"} => VarBlockTexts(pscript) \subseteq MapKeys(ptables.vars))

\* C28: in state Neither only a line that is `if L then` and nothing more
\* (white space at its ends aside) opens a variable block.
C28_ExactOpening ==
    [][(InBlock("Neither") /\ pstate' = "ParsingVars")
          => trim(pscript[pline]) = VARS_START]_vars

\* The lines read before the scan stopped that are identifier entries with
\* the comment, and variable entries with the text.
IdLinesOf(comment) ==
    {j \in 1..Len(pscript) :
        /\ j < pline /\ IsIdEntry(pscript[j])
        /\ trim(SubSeq(pscript[j], 7, Len(pscript[j]))) = comment}

VarLinesOf(text) ==
    {j \in 1..Len(pscript) :
        /\ j < pline /\ IsVarEntry(pscript[j])
        /\ SubSeq(pscript[j], 8, Len(pscript[j]) - 1) = text}

Max(S) == CHOOSE x \in S : \A y \in S : y <= x

\* The id of the last identifier line with the comment, the variable of the
\* first and of the last variable line with the text.
LastId(comment) == <<pscript[Max(IdLinesOf(comment))][2]>>

FirstVar(text) == <<pscript[Min(VarLinesOf(text))][3]>>

LastVar(text) == <<pscript[Max(VarLinesOf(text))][3]>>

\* The comments that stand in both tables when the scan is over.
Joined == MapKeys(ptables.ids) \cap MapKeys(ptables.vars)

\* C29 (as amended): both tables keep the last line of a repeated key: the
\* identifier table holds for each comment the id of the last line with
\* that comment, the variable table holds for each text the variable of
\* the last line with that text, and that variable is the one that is in
\* the entries when the text is the comment of an identifier.
C29_LastLineWinsInBoth ==
    /\ ppc \in {"correlate", "done"} =>
          /\ \A c \in MapKeys(ptables.ids) : MapValue(ptables.ids, c) = LastId(c)
          /\ \A t \in MapKeys(ptables.vars) : MapValue(ptables.vars, t) = LastVar(t)
    /\ ppc = "done" => \A t \in Joined : LastVar(t) \in MapKeys(pvar_to_id_map)

\* Two identifier lines with one comment and two variable lines with one
\* text have been read and correlated: the later id with the later variable.
C29_Witness ==
    /\ ppc = "done"
    /\ contains(pscript, <<IdLine("1", <<"a">>), IdLine("2", <<"a">>)>>)
    /\ contains(pscript, <<VarLine("bob", <<"a">>), VarLine("tom", <<"a">>)>>)
    /\ pvar_to_id_map = <<[key |-> <<"tom">>, value |-> <<"2">>]>>

\* C29 (as stated): the identifier table keeps the id of the later line of
\* a repeated comment, and of two variable lines with the same text the
\* first variable is the one in the entries.
C29_AsymmetricDuplicates ==
    /\ ppc \in {"correlate", "done"} =>
          \A c \in MapKeys(ptables.ids) : MapValue(ptables.ids, c) = LastId(c)
    /\ ppc = "done" => \A t \in Joined : FirstVar(t) \in MapKeys(pvar_to_id_map)

\* The IoError events of a language among messages.
IoErrorsOf(l, msgs) == SelectSeq(msgs, LAMBDA m : m.kind = "io" /\ m.language = l)

\* C31: the commit of a language starts when an event was sent for each of
\* its entries, and no entry event is sent after it; the reporter stops only
\* when the commit of every language has returned; every IoError event sent
\* is in the channel or was written by the reporter, and all of them were
\* written when the reporter has stopped.
C31_EventsBeforeCommit ==
    /\ [](\A l \in DOMAIN rdata :
             /\ rw[l].merges >= 1 => rw[l].sent = EntryNames(rdata[l])
             /\ rrep.pc = "stopped" => (rw[l].pc = "done" /\ rw[l].merges = 1)
             /\ IoEventsOf(l) = IoErrorsOf(l, rstderr) \o IoErrorsOf(l, rchan)
             /\ rrep.pc = "stopped" => IoEventsOf(l) = IoErrorsOf(l, rstderr))
    /\ [][\A l \in DOMAIN rdata :
             /\ rw'[l].merges # rw[l].merges => rw[l].sent = EntryNames(rdata[l])
             /\ rw[l].merges >= 1 => rw'[l].sent = rw[l].sent]_vars

\* The reporter has stopped after the commits of both languages failed: the
\* two entry events went first and both IoError events were written.
C31_Witness ==
    /\ rrep.pc = "stopped"
    /\ DOMAIN rdata = Langs
    /\ \A l \in Langs : Len(rw[l].sent) >= 1 /\ Len(IoErrorsOf(l, rstderr)) = 1

\* ------------------------------------------------------------------------
\* Properties of the termination of a run (SpecRunFair)
\* ------------------------------------------------------------------------

\* C30: a run that has work ends: every task is done, so that no sender
\* stays blocked on the channel, the channel is drained, the reporter has
\* stopped and the main thread is past its join and the sync.
C30_RunTerminates ==
    (rmain = "spawn")
        ~> (/\ rmain = "done"
            /\ rrep.pc = "stopped"
            /\ rchan = <<>>
            /\ \A l \in DOMAIN rdata : rw[l].pc = "done")

\* A run has ended whose tasks sent more messages than the channel holds:
\* an event of each entry and an I/O error of each language.
C30_Witness ==
    /\ rmain = "done"
    /\ rtotal = 2
    /\ rrep.processed = rtotal
    /\ Cardinality({i \in 1..Len(rstderr) : rstderr[i].kind = "io"}) = 2

============================================================================
